---- MODULE Spec2Model ----
(***************************************************************************)
(* Model of the agentic dispatch loop of the Telegram multi-tool           *)
(* orchestrator: tool discovery and routing (perception.py, core/session), *)
(* tool dispatch (action.py, core/session.py) and the two step loops       *)
(* (agent_loop.py: agentic_tool_loop, core/loop.py: AgentLoop.run).        *)
(***************************************************************************)
EXTENDS Integers, Sequences, FiniteSets, TLC

\* Python's None.
None == "None"

(***************************************************************************)
(* Bounds of the model.                                                    *)
(***************************************************************************)
\* Discovery passes started in one behaviour of RegistrySpec.
MaxPasses == 2
\* Tool calls issued in one behaviour of RegistrySpec.
MaxCalls == 2
\* Largest step budget (max_steps) a session is started with.
MaxSteps == 3

VARIABLES
    stack,                  \* which stack runs: "listener" (perception.py + agent_loop.py) or "agent" (main.py + core/)
    advertised,             \* server -> sequence of tool names its list_tools returns
    configured,             \* the servers whose endpoint is configured meaningfully
    tool_to_endpoint_map,   \* config.py global: tool name -> endpoint
    available_mcp_tools,    \* perception.py global: None or the catalog (sequence of entries)
    all_discovered_tools,   \* discover_mcp_tools local accumulator
    tool_map,               \* MultiMCP.tool_map: tool name -> server config
    dpos,                   \* position of the running discovery pass (0: none running)
    reached,                \* servers that answered list_tools in the current/last pass
    visited,                \* servers the current/last pass tried to connect to
    passes,                 \* discovery passes started
    call,                   \* the dispatcher call in progress / last finished
    live,                   \* tool-call connections that are open
    answering,              \* whether the server of the call in progress ever answers
    ncalls,                 \* dispatcher calls started
    connections,            \* connections opened by dispatcher calls
    max_steps,              \* the step budget of the session
    strategy,               \* AgentProfile.strategy
    pc,                     \* where the session's loop stands
    step,                   \* the loop variable of "for step in range(max_steps)"
    step_num,               \* the step number last logged / given to generate_plan
    decision,               \* the shape of the oracle's last decision
    plan,                   \* tool_calls_to_execute / the plan line of the step
    idx,                    \* position in tool_calls_to_execute (1-based)
    memory,                 \* the session memory (list / MemoryManager.memories)
    query,                  \* AgentLoop.run: the working query of the next step
    final_answer,           \* AgentContext.final_answer
    returned,               \* what AgentLoop.run returned
    asked,                  \* plans requested from the oracle
    iterations,             \* loop iterations started
    dispatched,             \* the invocations handed to the dispatcher, in order
    sent,                   \* send_telegram_message invocations, in order
    ending,                 \* how the session ended
    handlers,               \* handle_notification tasks: where each stands, its discovery pass
    built,                  \* task -> the table entries its own discovery pass has written
    observed,               \* task -> what its call_mcp_tool lookup saw
    arguments,              \* MultiMCP.call_tool: the arguments it was first called with
    normalized,             \* the arguments after each successive normalization
    response,               \* parse_function_call: the decision text and how it was written
    parsed,                 \* parse_function_call: what it returned or that it raised
    substitution,           \* the <extracted_...> substitution: the memory and the argument it is run on
    substituted,            \* what the substitution put in the place of the argument
    memories,               \* MemoryManager.memories of the store under study
    retrieved,              \* the last MemoryManager.retrieve call and what it returned
    now,                    \* the reading of time.time()
    sessions,               \* task -> the agentic_tool_loop call of its notification, when several run
    stores,                 \* task -> the memory list created by its agentic_tool_loop call
    reply,                  \* generate_plan: what the request to the planning oracle came to
    planned,                \* generate_plan: what it returned or that it raised
    sse_connections,        \* Telegram MCP server: client -> the state of its SSE connection
    sse_output_stream,      \* Telegram MCP server global: None or the client whose stream it holds
    forwarded,              \* Telegram MCP server: what became of each incoming Telegram message
    llm,                    \* ask_llm_for_tool_decision: what the request to Gemini came to
    decided,                \* ask_llm_for_tool_decision: what it returned or that it raised
    told,                   \* what lines 31-43 of agentic_tool_loop made of that decision
    retry_delay,            \* listen_to_source_sse: the local retry_delay
    listener                \* listen_to_source_sse: where it stands and what it went through

regVars == <<advertised, configured, tool_to_endpoint_map, available_mcp_tools,
             all_discovered_tools, tool_map, dpos, reached, visited, passes,
             call, live, answering, ncalls, connections>>

loopVars == <<max_steps, strategy, pc, step, step_num, decision, plan, idx, memory, query, final_answer, returned,
              asked, iterations, dispatched, sent, ending>>

taskVars == <<handlers, built, observed>>

\* The variables of the models that stand beside the registry and the loops.
\* Everything of them but lateVars:
sideVars == <<arguments, normalized, response, parsed, substitution, substituted,
              memories, retrieved, now, sessions, stores, reply, planned>>

storeVars == <<memories, retrieved, now>>

sessionVars == <<sessions, stores>>

planVars == <<reply, planned>>

serverVars == <<sse_connections, sse_output_stream, forwarded>>

askVars == <<llm, decided, told>>

listenVars == <<retry_delay, listener>>

lateVars == <<serverVars, askVars, listenVars>>

pureVars == <<substitution, substituted, storeVars, sessionVars, planVars, lateVars>>

fnVars == <<arguments, normalized, response, parsed, pureVars>>

otherVars == <<taskVars, fnVars>>

vars == <<stack, regVars, loopVars, otherVars>>

(***************************************************************************)
(* Servers and the tools they advertise.                                   *)
(***************************************************************************)
\* The configured server order (servers_to_discover / server_configs).
servers_to_discover == <<"DuckDuckGo", "Trafilatura", "Telegram", "GDrive">>

NumServers == Len(servers_to_discover)

ServerSet == {servers_to_discover[k] : k \in 1..NumServers}

\* The endpoint a server is reached at (one endpoint per server).
Endpoint(s) == s

\* Tools the repository's servers advertise (@mcp.tool() definitions): the
\* ones the loops name, two of GDrive's four and one of Trafilatura's two.
OwnTools ==
    [s \in ServerSet |->
        CASE s = "DuckDuckGo" -> <<"ddg_search">>
          [] s = "Trafilatura" -> <<"extract_text">>
          [] s = "Telegram" -> <<"telegram_send_message">>
          [] OTHER -> <<"gdrive_create_sheet", "gdrive_write_sheet">>]

\* The deployments the registry is exercised with: the repository's servers,
\* a server reporting 0 tools, and two servers advertising the same name.
Advertisements ==
    { OwnTools,
      [OwnTools EXCEPT !["Trafilatura"] = <<>>],
      [OwnTools EXCEPT !["GDrive"] = <<"gdrive_create_sheet", "extract_text">>] }

Range(seq) == {seq[k] : k \in 1..Len(seq)}

AdvertisedNames(adv) == UNION {Range(adv[s]) : s \in ServerSet}

\* Names a plan can carry: every advertised name and one nobody advertises.
ToolNames == AdvertisedNames(OwnTools) \cup {"no_such_tool"}

PairwiseDisjoint(adv) ==
    \A s, t \in ServerSet : s # t => Range(adv[s]) \cap Range(adv[t]) = {}

EmptyMap == [n \in {} |-> None]

\* dict.get(name): the entry or None.
Get(map, name) == IF name \in DOMAIN map THEN map[name] ELSE None

\* A table in which the first entry of a name stays.
PutIfAbsent(map, name, value) ==
    [n \in DOMAIN map \cup {name} |-> IF n \in DOMAIN map THEN map[n] ELSE value]

\* dict[name] = value
Put(map, name, value) ==
    [n \in DOMAIN map \cup {name} |-> IF n = name THEN value ELSE map[n]]

\* for tool in tools: map[tool.name] = value
RECURSIVE PutAll(_, _, _)
PutAll(map, names, value) ==
    IF names = <<>> THEN map
    ELSE PutAll(Put(map, Head(names), value), Tail(names), value)

(***************************************************************************)
(* Texts and values. A text is the sequence of its characters, with every  *)
(* run of letters and underscores written as one element ("query",         *)
(* "FUNCTION_CALL", "True"); digits and all other characters are elements  *)
(* of their own. No operation of the modelled code looks inside a run of   *)
(* letters other than to compare the whole run.                            *)
(***************************************************************************)
QUOTE == "\""

APOSTROPHE == "'"

NEWLINE == "\n"

Digits == {"0", "1", "2", "3", "4", "5", "6", "7", "8", "9"}

Punctuation ==
    {QUOTE, APOSTROPHE, "(", ")", "[", "]", "{", "}", ",", "=", "|", ":", ".", " ", NEWLINE}

\* str.isspace
IsSpace(c) == c \in {" ", NEWLINE}

\* \w of the re module: letters, digits and the underscore.
IsWord(c) == c \notin Punctuation

IsDigit(c) == c \in Digits

\* Python and JSON values. Every value has the same fields so that any two
\* can be compared; `items` holds the elements of a list (k = <<>>) or the
\* (key, value) pairs of a mapping in insertion order.
Value(t, i, str, b, items) == [t |-> t, i |-> i, s |-> str, b |-> b, items |-> items]

VInt(n) == Value("int", n, <<>>, FALSE, <<>>)

VStr(str) == Value("str", 0, str, FALSE, <<>>)

VBool(b) == Value("bool", 0, <<>>, b, <<>>)

VNone == Value("none", 0, <<>>, FALSE, <<>>)

VList(items) == Value("list", 0, <<>>, FALSE, items)

VMap(items) == Value("map", 0, <<>>, FALSE, items)

Item(k, v) == [k |-> k, v |-> v]

\* The first position >= from at which the text holds c, or 0.
IndexOf(str, c, from) ==
    LET hits == {p \in from..Len(str) : str[p] = c}
    IN  IF hits = {} THEN 0 ELSE CHOOSE p \in hits : \A q \in hits : p <= q

\* The last position at which the text holds c, or 0.
LastIndexOf(str, c) ==
    LET hits == {p \in 1..Len(str) : str[p] = c}
    IN  IF hits = {} THEN 0 ELSE CHOOSE p \in hits : \A q \in hits : q <= p

\* The first position >= from that holds no space (Len + 1 when none).
SkipSpaces(str, from) ==
    LET rest == {p \in from..Len(str) : ~IsSpace(str[p])}
    IN  IF rest = {} THEN Len(str) + 1 ELSE CHOOSE p \in rest : \A q \in rest : p <= q

\* str.strip()
Strip(str) ==
    LET keep == {p \in 1..Len(str) : ~IsSpace(str[p])}
    IN  IF keep = {} THEN <<>>
        ELSE SubSeq(str, CHOOSE p \in keep : \A q \in keep : p <= q,
                         CHOOSE p \in keep : \A q \in keep : q <= p)

\* str.startswith(prefix)
StartsWith(str, prefix) ==
    Len(str) >= Len(prefix) /\ SubSeq(str, 1, Len(prefix)) = prefix

\* str.split(c)
RECURSIVE Split(_, _)
Split(str, c) ==
    IF IndexOf(str, c, 1) = 0 THEN <<str>>
    ELSE <<SubSeq(str, 1, IndexOf(str, c, 1) - 1)>>
         \o Split(SubSeq(str, IndexOf(str, c, 1) + 1, Len(str)), c)

\* The end of the run of \w elements that starts at from (from - 1 when the
\* run is empty).
WordRunEnd(str, from) ==
    LET stops == {p \in from..Len(str) : ~IsWord(str[p])}
    IN  IF stops = {} THEN Len(str) ELSE (CHOOSE p \in stops : \A q \in stops : p <= q) - 1

\* The same for a run of digits.
DigitRunEnd(str, from) ==
    LET stops == {p \in from..Len(str) : ~IsDigit(str[p])}
    IN  IF stops = {} THEN Len(str) ELSE (CHOOSE p \in stops : \A q \in stops : p <= q) - 1

DigitValue(c) ==
    CASE c = "0" -> 0 [] c = "1" -> 1 [] c = "2" -> 2 [] c = "3" -> 3 [] c = "4" -> 4
      [] c = "5" -> 5 [] c = "6" -> 6 [] c = "7" -> 7 [] c = "8" -> 8 [] OTHER -> 9

\* int(digits)
RECURSIVE IntOf(_)
IntOf(digits) ==
    IF digits = <<>> THEN 0
    ELSE 10 * IntOf(SubSeq(digits, 1, Len(digits) - 1)) + DigitValue(digits[Len(digits)])

\* str.isdigit()
IsDigits(str) == str # <<>> /\ \A p \in 1..Len(str) : IsDigit(str[p])

\* dict.__setitem__ on the pairs of a mapping: an existing key keeps its
\* place and takes the new value, a new key goes last.
SetItem(items, k, v) ==
    IF \E p \in 1..Len(items) : items[p].k = k
    THEN [p \in 1..Len(items) |-> IF items[p].k = k THEN Item(k, v) ELSE items[p]]
    ELSE Append(items, Item(k, v))

\* What a parser returns: a value and the position after it, or a failure.
Parsed(val, next) == [ok |-> TRUE, val |-> val, next |-> next]

NotParsed == [ok |-> FALSE, val |-> VNone, next |-> 0]

\* The literal syntax shared by ast.literal_eval and json.loads, restricted
\* to non-negative integers without leading zeros, strings without escapes,
\* the three constants, lists, and mappings with string keys. json selects
\* the JSON spelling (double quotes only, true/false/null) over the Python
\* one (either quote, True/False/None, adjacent strings are joined, a comma
\* may follow the last element).
RECURSIVE ParseValueAt(_, _, _)
RECURSIVE ParseElements(_, _, _, _)
RECURSIVE ParseMembers(_, _, _, _)
ParseValueAt(str, from, json) ==
    LET j == SkipSpaces(str, from)
    IN  IF j > Len(str) THEN NotParsed
        ELSE IF IsDigit(str[j])
        THEN LET e == DigitRunEnd(str, j)
             IN  IF str[j] = "0" /\ e > j THEN NotParsed
                 ELSE Parsed(VInt(IntOf(SubSeq(str, j, e))), e + 1)
        ELSE IF str[j] = QUOTE \/ (~json /\ str[j] = APOSTROPHE)
        THEN LET q == IndexOf(str, str[j], j + 1)
                 n == SkipSpaces(str, q + 1)
                 more == ParseValueAt(str, n, json)
             IN  IF q = 0 \/ IndexOf(SubSeq(str, j, q), NEWLINE, 1) # 0 THEN NotParsed
                 ELSE IF ~json /\ n <= Len(str) /\ str[n] \in {QUOTE, APOSTROPHE}
                 THEN IF more.ok
                      THEN Parsed(VStr(SubSeq(str, j + 1, q - 1) \o more.val.s), more.next)
                      ELSE NotParsed
                 ELSE Parsed(VStr(SubSeq(str, j + 1, q - 1)), q + 1)
        ELSE IF str[j] = (IF json THEN "true" ELSE "True") THEN Parsed(VBool(TRUE), j + 1)
        ELSE IF str[j] = (IF json THEN "false" ELSE "False") THEN Parsed(VBool(FALSE), j + 1)
        ELSE IF str[j] = (IF json THEN "null" ELSE "None") THEN Parsed(VNone, j + 1)
        ELSE IF str[j] = "["
        THEN IF SkipSpaces(str, j + 1) <= Len(str) /\ str[SkipSpaces(str, j + 1)] = "]"
             THEN Parsed(VList(<<>>), SkipSpaces(str, j + 1) + 1)
             ELSE ParseElements(str, j + 1, json, <<>>)
        ELSE IF str[j] = "{"
        THEN IF SkipSpaces(str, j + 1) <= Len(str) /\ str[SkipSpaces(str, j + 1)] = "}"
             THEN Parsed(VMap(<<>>), SkipSpaces(str, j + 1) + 1)
             ELSE ParseMembers(str, j + 1, json, <<>>)
        ELSE NotParsed

\* The elements of a list after "[" or ",", up to the closing "]".
ParseElements(str, from, json, acc) ==
    LET r == ParseValueAt(str, from, json)
        j == SkipSpaces(str, r.next)
        end == SkipSpaces(str, from)
    IN  IF ~json /\ acc # <<>> /\ end <= Len(str) /\ str[end] = "]"
        THEN Parsed(VList(acc), end + 1)
        ELSE IF ~r.ok \/ j > Len(str) THEN NotParsed
        ELSE IF str[j] = "]" THEN Parsed(VList(Append(acc, Item(<<>>, r.val))), j + 1)
        ELSE IF str[j] = "," THEN ParseElements(str, j + 1, json, Append(acc, Item(<<>>, r.val)))
        ELSE NotParsed

\* The members of a mapping after "{" or ",", up to the closing "}".
ParseMembers(str, from, json, acc) ==
    LET k == ParseValueAt(str, from, json)
        c == SkipSpaces(str, k.next)
        end == SkipSpaces(str, from)
    IN  IF ~json /\ acc # <<>> /\ end <= Len(str) /\ str[end] = "}"
        THEN Parsed(VMap(acc), end + 1)
        ELSE IF ~k.ok \/ k.val.t # "str" \/ c > Len(str) \/ str[c] # ":" THEN NotParsed
        ELSE LET r == ParseValueAt(str, c + 1, json)
                 j == SkipSpaces(str, r.next)
             IN  IF ~r.ok \/ j > Len(str) THEN NotParsed
                 ELSE IF str[j] = "}"
                 THEN Parsed(VMap(SetItem(acc, k.val.s, r.val)), j + 1)
                 ELSE IF str[j] = ","
                 THEN ParseMembers(str, j + 1, json, SetItem(acc, k.val.s, r.val))
                 ELSE NotParsed

\* A whole text as one literal: the value, or a failure when the text is
\* not exactly one literal.
ParseWhole(str, json) ==
    LET r == ParseValueAt(str, 1, json)
    IN  IF r.ok /\ SkipSpaces(str, r.next) > Len(str) THEN r ELSE NotParsed

\* ast.literal_eval(text); a failure stands for the ValueError or
\* SyntaxError it raises.
literal_eval(str) == ParseWhole(str, FALSE)

\* json.loads(text); a failure stands for json.JSONDecodeError.
json_loads(str) == ParseWhole(str, TRUE)

(***************************************************************************)
(* MultiMCP.call_tool, lines 55-103: the normalization of the arguments.   *)
(***************************************************************************)
\* One match of (\w+)\s*=\s*("[^"]*"|[^,]+) starting at position p: the two
\* groups and the position of its last element, or a failure. \w+ can only
\* take its whole run, since "=" or a space has to follow it; the value is
\* a quoted stretch when one starts right after the spaces, otherwise the
\* stretch up to the next comma; when nothing but spaces precedes the comma
\* or the end, \s* gives one space back to the value.
MatchAt(str, p) ==
    LET q == WordRunEnd(str, p)
        e == SkipSpaces(str, q + 1)
        v == SkipSpaces(str, e + 1)
        close == IF v <= Len(str) /\ str[v] = QUOTE THEN IndexOf(str, QUOTE, v + 1) ELSE 0
        comma == IndexOf(str, ",", v)
        stop == IF comma = 0 THEN Len(str) ELSE comma - 1
        key == SubSeq(str, p, q)
    IN  IF p > Len(str) \/ ~IsWord(str[p]) \/ e > Len(str) \/ str[e] # "="
        THEN [ok |-> FALSE, key |-> <<>>, value |-> <<>>, last |-> 0]
        ELSE IF close # 0
        THEN [ok |-> TRUE, key |-> key, value |-> SubSeq(str, v, close), last |-> close]
        ELSE IF v <= stop
        THEN [ok |-> TRUE, key |-> key, value |-> SubSeq(str, v, stop), last |-> stop]
        ELSE IF v > e + 1
        THEN [ok |-> TRUE, key |-> key, value |-> SubSeq(str, v - 1, v - 1), last |-> v - 1]
        ELSE [ok |-> FALSE, key |-> <<>>, value |-> <<>>, last |-> 0]

\* re.findall(pattern, arguments): the non-overlapping matches from left to
\* right, scanning on from position p.
RECURSIVE FindAll(_, _)
FindAll(str, p) ==
    IF p > Len(str) THEN <<>>
    ELSE IF MatchAt(str, p).ok
    THEN <<MatchAt(str, p)>> \o FindAll(str, MatchAt(str, p).last + 1)
    ELSE FindAll(str, p + 1)

\* value.lower() == 'true' and value.lower() == 'false' for the spellings of
\* the two words the inputs use.
TrueSpellings == {"true", "True", "TRUE"}

FalseSpellings == {"false", "False", "FALSE"}

\* Lines 74-95: the value of one match, unquoted and converted.
ConvertValue(value) ==
    LET stripped == Strip(value)
        unquoted == IF stripped # <<>> /\ Head(stripped) = QUOTE /\ stripped[Len(stripped)] = QUOTE
                    THEN SubSeq(stripped, 2, Len(stripped) - 1)
                    ELSE stripped
    IN  IF IsDigits(unquoted) THEN VInt(IntOf(unquoted))
        ELSE IF Len(unquoted) = 1 /\ unquoted[1] \in TrueSpellings THEN VBool(TRUE)
        ELSE IF Len(unquoted) = 1 /\ unquoted[1] \in FalseSpellings THEN VBool(FALSE)
        ELSE IF /\ unquoted # <<>> /\ Head(unquoted) = "[" /\ unquoted[Len(unquoted)] = "]"
                /\ json_loads(unquoted).ok
        THEN json_loads(unquoted).val
        ELSE VStr(unquoted)

\* Lines 72-97: arg_dict after the matches have been stored in order.
RECURSIVE ArgDict(_, _)
ArgDict(matches, acc) ==
    IF matches = <<>> THEN acc
    ELSE ArgDict(Tail(matches),
                 SetItem(acc, Strip(Head(matches).key), ConvertValue(Head(matches).value)))

\* Lines 56-99: a string is replaced by what json.loads makes of it and,
\* when that fails, by the dictionary of its key=value matches; anything
\* else is passed on as it is.
normalize(x) ==
    IF x.t # "str" THEN x
    ELSE IF json_loads(x.s).ok THEN json_loads(x.s).val
    ELSE VMap(ArgDict(FindAll(x.s, 1), <<>>))

(***************************************************************************)
(* parse_function_call (modules/action.py).                                *)
(***************************************************************************)
\* "FUNCTION_CALL:"
PREFIX == <<"FUNCTION_CALL", ":">>

\* "FINAL_ANSWER:"
FINAL_PREFIX == <<"FINAL_ANSWER", ":">>

\* str.splitlines(): no line for the empty text, none after a final line break.
SplitLines(str) ==
    IF str = <<>> THEN <<>>
    ELSE IF str[Len(str)] = NEWLINE THEN Split(SubSeq(str, 1, Len(str) - 1), NEWLINE)
    ELSE Split(str, NEWLINE)

\* c in text
Contains(str, c) == IndexOf(str, c, 1) # 0

\* text.split(c, 1) of a text that contains c.
Before(str, c) == SubSeq(str, 1, IndexOf(str, c, 1) - 1)

After(str, c) == SubSeq(str, IndexOf(str, c, 1) + 1, Len(str))

\* key in data, data[key]
HasKey(items, k) == \E p \in 1..Len(items) : items[p].k = k

GetItem(items, k) == items[CHOOSE p \in 1..Len(items) : items[p].k = k].v

\* What parse_function_call returns, and that it raised ValueError.
Returned(tool_name, args) == [ok |-> TRUE, tool |-> tool_name, args |-> args]

Raised == [ok |-> FALSE, tool |-> VNone, args |-> VNone]

\* Lines 60-64: args after "current[keys[-1]] = parsed_val" at the end of
\* the chain of setdefault calls; it fails when a key on the way holds
\* something that is not a mapping.
RECURSIVE SetNested(_, _, _)
SetNested(items, keys, val) ==
    IF Len(keys) = 1 THEN [ok |-> TRUE, items |-> SetItem(items, keys[1], val)]
    ELSE LET current == IF HasKey(items, keys[1]) THEN GetItem(items, keys[1]) ELSE VMap(<<>>)
             inner == SetNested(current.items, Tail(keys), val)
         IN  IF current.t = "map" /\ inner.ok
             THEN [ok |-> TRUE, items |-> SetItem(items, keys[1], VMap(inner.items))]
             ELSE [ok |-> FALSE, items |-> <<>>]

\* Lines 48-64: the parameters of the pipe format, one part after another.
RECURSIVE PipeParams(_, _)
PipeParams(param_parts, args) ==
    IF param_parts = <<>> THEN [ok |-> TRUE, items |-> args]
    ELSE LET part == Head(param_parts)
             val == After(part, "=")
             parsed_val == IF literal_eval(val).ok THEN literal_eval(val).val ELSE VStr(Strip(val))
             set == SetNested(args, Split(Before(part, "="), "."), parsed_val)
         IN  IF ~Contains(part, "=") \/ ~set.ok THEN [ok |-> FALSE, items |-> <<>>]
             ELSE PipeParams(Tail(param_parts), set.items)

\* Lines 43-70: the pipe format, tool_name|param1=value1|param2=value2. A
\* failure stands for the exception that makes the code fall through.
PipeFormat(function_text) ==
    LET split == Split(function_text, "|")
        parts == [p \in 1..Len(split) |-> Strip(split[p])]
        params == PipeParams(Tail(parts), <<>>)
    IN  IF params.ok THEN Returned(VStr(parts[1]), VMap(params.items)) ELSE Raised

\* Lines 83-88: the locals before the loop.
SplitStart ==
    [param_parts |-> <<>>, current_part |-> <<>>, in_quotes |-> FALSE, quote_char |-> None,
     paren_level |-> 0, bracket_level |-> 0, brace_level |-> 0]

\* Lines 91-120, the loop body inside quotes: the quote that opened them
\* closes them, every other character is kept.
InsideQuotes(st, char) ==
    IF char = st.quote_char
    THEN [st EXCEPT !.current_part = Append(st.current_part, char),
                    !.in_quotes = FALSE, !.quote_char = None]
    ELSE [st EXCEPT !.current_part = Append(st.current_part, char)]

\* Lines 91-120, the loop body outside quotes.
OutsideQuotes(st, char) ==
    LET kept == [st EXCEPT !.current_part = Append(st.current_part, char)]
    IN  IF char \in {QUOTE, APOSTROPHE}
        THEN [kept EXCEPT !.in_quotes = TRUE, !.quote_char = char]
        ELSE IF char = "(" THEN [kept EXCEPT !.paren_level = st.paren_level + 1]
        ELSE IF char = ")" THEN [kept EXCEPT !.paren_level = st.paren_level - 1]
        ELSE IF char = "[" THEN [kept EXCEPT !.bracket_level = st.bracket_level + 1]
        ELSE IF char = "]" THEN [kept EXCEPT !.bracket_level = st.bracket_level - 1]
        ELSE IF char = "{" THEN [kept EXCEPT !.brace_level = st.brace_level + 1]
        ELSE IF char = "}" THEN [kept EXCEPT !.brace_level = st.brace_level - 1]
        ELSE IF char = "," /\ st.paren_level = 0 /\ st.bracket_level = 0 /\ st.brace_level = 0
        THEN [st EXCEPT !.param_parts = Append(st.param_parts, Strip(st.current_part)),
                        !.current_part = <<>>]
        ELSE kept

\* Lines 82-123: the split of args_text at the commas outside quotes and
\* outside (), [] and {}. The state holds the locals of the loop.
RECURSIVE SplitParams(_, _, _)
SplitParams(args_text, k, st) ==
    IF k > Len(args_text)
    THEN IF Strip(st.current_part) # <<>> THEN Append(st.param_parts, Strip(st.current_part))
         ELSE st.param_parts
    ELSE IF st.in_quotes
    THEN SplitParams(args_text, k + 1, InsideQuotes(st, args_text[k]))
    ELSE SplitParams(args_text, k + 1, OutsideQuotes(st, args_text[k]))

\* Lines 126-147: the parameters of the parentheses format; a part without
\* "=" is skipped, a value that is no literal is kept as a string.
RECURSIVE CallParams(_, _)
CallParams(param_parts, args) ==
    IF param_parts = <<>> THEN args
    ELSE LET part == Head(param_parts)
             key == Strip(Before(part, "="))
             val == Strip(After(part, "="))
             quoted == literal_eval(<<QUOTE>> \o val \o <<QUOTE>>)
             parsed_val == IF literal_eval(val).ok THEN literal_eval(val).val
                           ELSE IF val # <<>> /\ Head(val) \in {QUOTE, APOSTROPHE} THEN VStr(val)
                           ELSE IF quoted.ok THEN quoted.val
                           ELSE VStr(val)
         IN  IF ~Contains(part, "=") THEN CallParams(Tail(param_parts), args)
             ELSE CallParams(Tail(param_parts), SetItem(args, key, parsed_val))

\* Lines 73-150: the parentheses format, tool_name(param1="value1", ...):
\* re.match of ([\w_]+)\s*\((.*)\)\s*$ on the stripped text, so the name is
\* the run of \w at the start, "(" follows it after spaces, ")" is the last
\* character and no line break lies between them. A failure stands for no
\* match.
ParenthesesFormat(function_text) ==
    LET w == WordRunEnd(function_text, 1)
        open == SkipSpaces(function_text, w + 1)
        n == Len(function_text)
        args_text == Strip(SubSeq(function_text, open + 1, n - 1))
    IN  IF /\ w >= 1 /\ open < n /\ function_text[open] = "(" /\ function_text[n] = ")"
           /\ ~Contains(SubSeq(function_text, open + 1, n - 1), NEWLINE)
        THEN Returned(VStr(SubSeq(function_text, 1, w)),
                      VMap(CallParams(SplitParams(args_text, 1, SplitStart), <<>>)))
        ELSE Raised

\* Line 155: re.search(r'\{.*\}', response): the match starts at the first
\* "{" that has a "}" after it on the same line and ends at the last "}" of
\* that line; <<>> when there is no match.
JsonMatch(str) ==
    LET LineEnd(b) == IF IndexOf(str, NEWLINE, b) = 0 THEN Len(str) ELSE IndexOf(str, NEWLINE, b) - 1
        Closes(b) == {e \in (b + 1)..LineEnd(b) : str[e] = "}"}
        opens == {b \in 1..Len(str) : str[b] = "{" /\ Closes(b) # {}}
        first == CHOOSE b \in opens : \A c \in opens : b <= c
    IN  IF opens = {} THEN <<>>
        ELSE SubSeq(str, first, CHOOSE e \in Closes(first) : \A f \in Closes(first) : f <= e)

\* Lines 153-177: the JSON formats. A failure stands for no match, for a
\* text json.loads rejects and for an object of no recognized shape.
JsonFormat(str) ==
    LET data == json_loads(JsonMatch(str))
        items == data.val.items
    IN  IF JsonMatch(str) = <<>> \/ ~data.ok THEN Raised
        ELSE IF HasKey(items, <<"tool_name">>) /\ HasKey(items, <<"parameters">>)
        THEN Returned(GetItem(items, <<"tool_name">>), GetItem(items, <<"parameters">>))
        ELSE IF HasKey(items, <<"tool">>) /\ HasKey(items, <<"tool_input">>)
        THEN Returned(GetItem(items, <<"tool">>), GetItem(items, <<"tool_input">>))
        ELSE IF HasKey(items, <<"tool">>) /\ GetItem(items, <<"tool">>).t = "str"
        THEN Returned(GetItem(items, <<"tool">>),
                      VMap(SelectSeq(items, LAMBDA it : it.k # <<"tool">>)))
        ELSE Raised

\* Line 39: what follows the prefix.
FunctionText(text) == Strip(SubSeq(Strip(text), Len(PREFIX) + 1, Len(Strip(text))))

\* parse_function_call(response): the pair it returns, or Raised for the
\* ValueError of line 180.
parse_function_call(text) ==
    LET stripped == Strip(text)
        prefixed == StartsWith(stripped, PREFIX)
        function_text == FunctionText(text)
    IN  IF prefixed /\ Contains(function_text, "|") /\ PipeFormat(function_text).ok
        THEN PipeFormat(function_text)
        ELSE IF prefixed /\ ParenthesesFormat(function_text).ok
        THEN ParenthesesFormat(function_text)
        ELSE JsonFormat(stripped)

(***************************************************************************)
(* Discovery: discover_mcp_tools (perception.py) and MultiMCP.initialize.  *)
(***************************************************************************)
\* How one connection attempt to a server ends.
DiscoveryOutcomes == {"ok", "ClientError", "Timeout", "Error"}

\* The first server at position >= k that discover_mcp_tools does not skip
\* (NumServers + 1 when there is none).
RECURSIVE NextConfigured(_)
NextConfigured(k) ==
    IF k > NumServers THEN NumServers + 1
    ELSE IF servers_to_discover[k] \in configured THEN k
    ELSE NextConfigured(k + 1)

\* A discovery that gives up what it has found when a server fails.
DiscoveredMapListenerAborting(map, s, outcome) ==
    IF outcome = "ok" THEN PutAll(map, advertised[s], Endpoint(s)) ELSE EmptyMap

\* _discover_tools_from_endpoint: the routing map after the attempt.
DiscoveredMapListener(map, s, outcome) ==
    IF outcome = "ok" THEN PutAll(map, advertised[s], Endpoint(s)) ELSE map

\* _discover_tools_from_endpoint: the catalog entries it returns.
DiscoveredEntries(s, outcome) ==
    IF outcome = "ok"
    THEN [k \in 1..Len(advertised[s]) |->
            [tool_name |-> advertised[s][k], endpoint |-> Endpoint(s), server_name |-> s]]
    ELSE <<>>

\* An initialize that registers only the first tool of each server.
DiscoveredMapAgentFirstOnly(map, s, outcome) ==
    IF outcome = "ok" /\ advertised[s] # <<>> THEN Put(map, Head(advertised[s]), s) ELSE map

\* MultiMCP.initialize, one server: tool_map after the attempt.
DiscoveredMapAgent(map, s, outcome) ==
    IF outcome = "ok" THEN PutAll(map, advertised[s], s) ELSE map

\* available_mcp_tools before any discovery (None) and after one (a list).
NoCatalog == [is_none |-> TRUE, tools |-> <<>>]

Catalog(entries) == [is_none |-> FALSE, tools |-> entries]

\* discover_mcp_tools up to its first await: the map is cleared, unconfigured
\* servers are skipped without any await.
DiscoverBegin ==
    /\ stack = "listener"
    /\ dpos = 0
    /\ passes < MaxPasses
    /\ passes' = passes + 1
    /\ tool_to_endpoint_map' = EmptyMap
    /\ all_discovered_tools' = <<>>
    /\ visited' = {}
    /\ reached' = {}
    /\ IF NextConfigured(1) > NumServers
       THEN /\ dpos' = 0
            /\ available_mcp_tools' = Catalog(<<>>)
       ELSE /\ dpos' = NextConfigured(1)
            /\ UNCHANGED available_mcp_tools
    /\ UNCHANGED <<advertised, configured, tool_map, call, live, answering, ncalls, connections>>
    /\ UNCHANGED <<stack, loopVars, otherVars>>

\* One server of the pass answers or fails; after the last one the catalog
\* is published.
DiscoverVisit ==
    /\ stack = "listener"
    /\ dpos \in 1..NumServers
    /\ \E outcome \in DiscoveryOutcomes :
        LET s == servers_to_discover[dpos]
            all == all_discovered_tools \o DiscoveredEntries(s, outcome)
        IN  /\ tool_to_endpoint_map' = DiscoveredMapListener(tool_to_endpoint_map, s, outcome)
            /\ all_discovered_tools' = all
            /\ visited' = visited \cup {s}
            /\ reached' = IF outcome = "ok" THEN reached \cup {s} ELSE reached
            /\ IF NextConfigured(dpos + 1) > NumServers
               THEN /\ dpos' = 0
                    /\ available_mcp_tools' = Catalog(all)
               ELSE /\ dpos' = NextConfigured(dpos + 1)
                    /\ UNCHANGED available_mcp_tools
    /\ UNCHANGED <<advertised, configured, tool_map, passes, call, live, answering, ncalls, connections>>
    /\ UNCHANGED <<stack, loopVars, otherVars>>

\* multi_mcp = MultiMCP(server_configs); await multi_mcp.initialize(): a fresh
\* dispatcher with an empty tool_map starts its pass.
InitializeBegin ==
    /\ stack = "agent"
    /\ dpos = 0
    /\ call.state # "open"
    /\ passes < MaxPasses
    /\ passes' = passes + 1
    /\ tool_map' = EmptyMap
    /\ visited' = {}
    /\ reached' = {}
    /\ dpos' = 1
    /\ UNCHANGED <<advertised, configured, tool_to_endpoint_map, available_mcp_tools,
                   all_discovered_tools, call, live, answering, ncalls, connections>>
    /\ UNCHANGED <<stack, loopVars, otherVars>>

\* MultiMCP.initialize, one iteration of "for config in self.server_configs".
InitializeVisit ==
    /\ stack = "agent"
    /\ dpos \in 1..NumServers
    /\ \E outcome \in DiscoveryOutcomes :
        LET s == servers_to_discover[dpos]
        IN  /\ tool_map' = DiscoveredMapAgent(tool_map, s, outcome)
            /\ visited' = visited \cup {s}
            /\ reached' = IF outcome = "ok" THEN reached \cup {s} ELSE reached
    /\ dpos' = IF dpos = NumServers THEN 0 ELSE dpos + 1
    /\ UNCHANGED <<advertised, configured, tool_to_endpoint_map, available_mcp_tools,
                   all_discovered_tools, passes, call, live, answering, ncalls, connections>>
    /\ UNCHANGED <<stack, loopVars, otherVars>>

\* MultiMCP.get_all_tools: the names of the catalog.
get_all_tools == DOMAIN tool_map

(***************************************************************************)
(* Dispatch: call_mcp_tool (action.py) and MultiMCP.call_tool.             *)
(***************************************************************************)
\* How an opened call ends.
CallOutcomes == {"ok", "ClientError", "ToolError", "Timeout", "Error"}

NoCall == [name |-> None, state |-> "idle", conn |-> None, result |-> None, raised |-> FALSE]

\* The routing lookup of the running stack.
Route(name) ==
    IF stack = "listener" THEN Get(tool_to_endpoint_map, name) ELSE Get(tool_map, name)

\* A dispatcher that falls back to the first server on a routing miss.
StartCallWithFallback(name) ==
    [name |-> name, state |-> "open",
     conn |-> IF Route(name) = None THEN Endpoint(servers_to_discover[1]) ELSE Route(name),
     result |-> None, raised |-> FALSE]

\* The call up to its first await: a routing miss ends it at once (an error
\* value in call_mcp_tool, a raised ValueError in MultiMCP.call_tool);
\* otherwise a connection to the routed server is opened.
StartCall(name) ==
    IF Route(name) = None
    THEN [name |-> name, state |-> "done", conn |-> None, result |-> "UnknownTool",
          raised |-> (stack = "agent")]
    ELSE [name |-> name, state |-> "open", conn |-> Route(name), result |-> None,
          raised |-> FALSE]

\* The call after its connection ended with `outcome`: call_mcp_tool turns
\* every failure into an error value, MultiMCP.call_tool re-raises it.
FinishCall(c, outcome) ==
    [c EXCEPT !.state = "done", !.result = outcome,
              !.raised = (stack = "agent" /\ outcome # "ok")]

IsError(c) == c.result # "ok"

\* Whether the server a call is routed to will ever answer it (a call that
\* is refused at the lookup waits for nobody).
Answers(c) == IF c.conn # None THEN BOOLEAN ELSE {TRUE}

\* The connections open once the call c has passed the lookup: async with
\* client / async with sse_client opens one for a routed call.
LiveAfterOpen(n, c) == IF c.conn # None THEN n + 1 ELSE n

\* A dispatcher that leaves the connection of a failed call open.
LiveAfterCallLeakingOnError(n, outcome) == IF outcome = "ok" THEN n - 1 ELSE n

\* The connections open once the call has ended with `outcome`: the async
\* with block closes the connection on return and on every exception.
LiveAfterCall(n, outcome) == n - 1

\* How the open call can end. A server that answers ends it with any of the
\* outcomes; one that never answers ends call_mcp_tool with the Timeout of
\* asyncio.wait_for(..., timeout=60.0), while MultiMCP.call_tool awaits
\* session.call_tool without a timeout.
Resolutions ==
    IF answering THEN CallOutcomes
    ELSE IF stack = "listener" THEN {"Timeout"} ELSE {}

CallBegin ==
    /\ call.state # "open"
    /\ passes > 0
    /\ stack = "agent" => dpos = 0
    /\ ncalls < MaxCalls
    /\ \E name \in ToolNames :
        /\ call' = StartCall(name)
        /\ live' = LiveAfterOpen(live, StartCall(name))
        /\ \E a \in Answers(StartCall(name)) : answering' = a
        /\ connections' = IF StartCall(name).conn # None THEN connections + 1 ELSE connections
    /\ ncalls' = ncalls + 1
    /\ UNCHANGED <<advertised, configured, tool_to_endpoint_map, available_mcp_tools,
                   all_discovered_tools, tool_map, dpos, reached, visited, passes>>
    /\ UNCHANGED <<stack, loopVars, otherVars>>

CallEnd ==
    /\ call.state = "open"
    /\ \E outcome \in Resolutions :
        /\ call' = FinishCall(call, outcome)
        /\ live' = LiveAfterCall(live, outcome)
    /\ answering' = TRUE
    /\ UNCHANGED <<advertised, configured, tool_to_endpoint_map, available_mcp_tools,
                   all_discovered_tools, tool_map, dpos, reached, visited, passes,
                   ncalls, connections>>
    /\ UNCHANGED <<stack, loopVars, otherVars>>

(***************************************************************************)
(* agentic_tool_loop (agent_loop.py): decisions, memory, placeholders.     *)
(***************************************************************************)
\* A tool result as kept in memory: kind is "links" (list of str), "text",
\* "dict" (a mapping with a sheet_id), "error" ({"error": ...}) or "none".
Result(kind, val) == [kind |-> kind, val |-> val]

NoResult == Result("none", <<>>)

\* The link lists a successful ddg_search is seen to return.
LinkLists == {<<>>, <<"https://a", "https://b">>}

\* One invocation of a plan: {"tool_name": ..., "tool_input": {key: value}}.
Invocation(name, key, value) == [tool_name |-> name, key |-> key, value |-> value]

\* The plans (JSON lists) the oracle is seen to return.
OraclePlans ==
    { <<>>,
      << Invocation("ddg_search", "query", "X") >>,
      << Invocation("ddg_search", "query", "X"),
         Invocation("extract_text", "url", "<url_from_ddg_search_result_1>") >>,
      << Invocation("extract_text", "url", "<url_from_ddg_search_result_5>") >>,
      << Invocation("extract_text", "url", "https://a"),
         Invocation("telegram_send_message", "text", "<extracted_text>") >>,
      << Invocation("telegram_send_message", "text", "hello"),
         Invocation("ddg_search", "query", "X") >>,
      << Invocation("gdrive_write_sheet", "sheet_id", "<sheet_id_from_gdrive_create_sheet>") >>,
      << Invocation("no_such_tool", "query", "X"),
         Invocation("ddg_search", "query", "X") >>,
      << Invocation(None, "query", "X") >>,
      << Invocation("extract_text", "url", "<url_from_ddg_search_result_2>") >>,
      << Invocation("telegram_send_message", "chat_id", "<user_chat_id>") >>,
      << Invocation("telegram_send_message", "text", "<extracted_text>") >> }

\* The single-invocation decisions (a JSON object) the oracle is seen to return.
OracleCalls ==
    { Invocation("gdrive_create_sheet", "sheet_name", "S"),
      Invocation("telegram_send_message", "text", "hello") }

\* What ask_llm_for_tool_decision returns: a direct answer, one invocation, a
\* list of invocations, or an object that is neither (no truthy tool_name and
\* no truthy direct_answer).
Decisions ==
    {[kind |-> "direct", calls |-> <<>>], [kind |-> "neither", calls |-> <<>>]}
    \cup {[kind |-> "single", calls |-> <<c>>] : c \in OracleCalls}
    \cup {[kind |-> "list", calls |-> p] : p \in OraclePlans}

ToolCallRecord(name, input) ==
    [type |-> "tool_call", tool_name |-> name, input |-> input, result |-> NoResult]

ToolResultRecord(name, result) ==
    [type |-> "tool_result", tool_name |-> name, input |-> None, result |-> result]

\* isinstance(raw_result, dict) and raw_result.get("error")
HasError(rec) == rec.result.kind = "error"

IsDdgLinks(m) ==
    m.type = "tool_result" /\ m.tool_name = "ddg_search" /\ m.result.kind = "links"

IsExtractedText(m) ==
    m.type = "tool_result" /\ m.tool_name = "extract_text" /\ m.result.kind = "text"

\* isinstance(result, dict) and result.get("sheet_id"): a mapping without a
\* sheet_id (val = <<>>) is passed over.
IsCreatedSheet(m) ==
    /\ m.type = "tool_result"
    /\ m.tool_name = "gdrive_create_sheet"
    /\ m.result.kind = "dict"
    /\ m.result.val # <<>>

\* The indices of the records of mem of the given sort.
DdgLinksAt(mem) == {k \in 1..Len(mem) : IsDdgLinks(mem[k])}

ExtractedTextAt(mem) == {k \in 1..Len(mem) : IsExtractedText(mem[k])}

CreatedSheetAt(mem) == {k \in 1..Len(mem) : IsCreatedSheet(mem[k])}

\* A scan that runs from the oldest record on.
FirstIndex(hits) ==
    IF hits = {} THEN 0 ELSE CHOOSE k \in hits : \A j \in hits : k <= j

\* for mem_item in reversed(memory): the most recent of the records at the
\* indices `hits`, or 0 when there is none.
LastIndex(hits) ==
    IF hits = {} THEN 0 ELSE CHOOSE k \in hits : \A j \in hits : j <= k

\* int(value.split('_')[-1].replace(">", "")) for the placeholders in use.
PlaceholderIndex(value) ==
    CASE value = "<url_from_ddg_search_result_1>" -> 1
      [] value = "<url_from_ddg_search_result_2>" -> 2
      [] OTHER -> 5

IsUrlPlaceholder(value) ==
    value \in {"<url_from_ddg_search_result_1>", "<url_from_ddg_search_result_2>",
               "<url_from_ddg_search_result_5>"}

IsExtractedPlaceholder(value) == value \in {"<extracted_text>"}

IsSheetPlaceholder(value) ==
    value \in {"<sheet_id_from_gdrive_create_sheet>", "<file_id_from_gdrive_create_sheet>"}

Resolved(value) == [ok |-> TRUE, value |-> value, error |-> None]

Unresolved(error) == [ok |-> FALSE, value |-> None, error |-> error]

\* The placeholder substitution of one argument against the memory.
ResolvePlaceholder(mem, value) ==
    IF IsUrlPlaceholder(value) THEN
        LET k == LastIndex(DdgLinksAt(mem))
            links == IF k = 0 THEN <<>> ELSE mem[k].result.val
        IN  IF links # <<>>
            THEN IF PlaceholderIndex(value) \in 1..Len(links)
                 THEN Resolved(links[PlaceholderIndex(value)])
                 ELSE Unresolved("Could not find link")
            ELSE Unresolved("No search results found")
    ELSE IF IsExtractedPlaceholder(value) THEN
        LET k == LastIndex(ExtractedTextAt(mem))
        IN  IF k = 0 THEN Resolved("No extracted text found for placeholder.")
            ELSE Resolved(mem[k].result.val[1])
    ELSE IF IsSheetPlaceholder(value) THEN
        LET k == LastIndex(CreatedSheetAt(mem))
        IN  IF k = 0 THEN Unresolved("Could not find previously created sheet ID.")
            ELSE Resolved(mem[k].result.val[1])
    ELSE Resolved(value)

\* The mappings gdrive_create_sheet answers with: {"sheet_id": ..., ...} of a
\* new sheet, or {"error": ...} returned as the tool's value (gdrive_mcp
\* server lines 209-224), which reaches the loop as content and not as the
\* error dict of call_mcp_tool; the latter is the mapping without sheet_id.
CreatedSheets == {<<"sheet1">>, <<"sheet2">>, <<>>}

\* What a finished call leaves as raw_tool_output / processed result.
ToolResults(name, c) ==
    IF c.result # "ok" THEN {Result("error", <<c.result>>)}
    ELSE IF name = "ddg_search" THEN {Result("links", l) : l \in LinkLists}
    ELSE IF name = "extract_text" THEN {Result("text", <<"page text">>)}
    ELSE IF name = "gdrive_create_sheet" THEN {Result("dict", d) : d \in CreatedSheets}
    ELSE {Result("text", <<"done">>)}

\* send_telegram_message: dispatches telegram_send_message when it is routed
\* (the call may fail, which is only logged), and only logs otherwise.
Message(kind, detail) == [kind |-> kind, detail |-> detail]

SendOutcomes ==
    IF "telegram_send_message" \in DOMAIN tool_to_endpoint_map
    THEN {"sent", "send_failed"} ELSE {"no_channel"}

\* The closing message when max_steps is reached.
FinalWords(mem) ==
    IF mem # <<>> /\ mem[Len(mem)].type = "tool_result" /\ ~HasError(mem[Len(mem)])
    THEN Message("max_steps", mem[Len(mem)].result)
    ELSE Message("max_steps", NoResult)

\* One send_telegram_message invocation with how it ended.
Sends(msg) == {[kind |-> msg.kind, detail |-> msg.detail, status |-> o] : o \in SendOutcomes}

\* Connections send_telegram_message opens (one call_mcp_tool when routed).
SendConnections == IF "telegram_send_message" \in DOMAIN tool_to_endpoint_map THEN 1 ELSE 0

registryFrame ==
    UNCHANGED <<advertised, configured, tool_to_endpoint_map, available_mcp_tools,
                all_discovered_tools, tool_map, dpos, reached, visited, passes, otherVars>>

\* A step number that is the loop variable itself.
StepNumZeroBased(s) == s

\* step + 1: the number the log line of agentic_tool_loop shows (line 27) and
\* decide_next_action hands to generate_plan as step_num (strategy.py 27).
StepNum(s) == s + 1

\* A range that runs one step too far.
InRangeInclusive(k, n) == k <= n

\* for step in range(max_steps): is there another iteration?
InRange(k, n) == k < n

\* A loop that does not look at the direct answer of a decision.
DecisionBranchIgnoringAnswer(kind) ==
    IF kind = "neither" THEN "reject" ELSE "execute"

\* Lines 31-43: what the loop does with a decision of the given shape.
DecisionBranch(kind) ==
    CASE kind = "direct" -> "answer"
      [] kind = "neither" -> "reject"
      [] OTHER -> "execute"

\* A recording that keeps only the results that are no errors.
MemoryAfterResultDroppingErrors(mem, name, result) ==
    IF result.kind = "error" THEN mem ELSE Append(mem, ToolResultRecord(name, result))

\* Line 181: the memory after the result of a call is recorded.
MemoryAfterResult(mem, name, result) == Append(mem, ToolResultRecord(name, result))

\* Lines 26-43: one planning request and the dispatch on its shape.
ToolLoopAsk ==
    /\ stack = "listener"
    /\ pc = "plan"
    /\ InRange(step, max_steps)
    /\ iterations' = iterations + 1
    /\ asked' = asked + 1
    /\ \E d \in Decisions :
        /\ decision' = d.kind
        /\ CASE DecisionBranch(d.kind) = "answer" ->
                /\ \E m \in Sends(Message("direct_answer", Result("text", <<"answer">>))) :
                       sent' = Append(sent, m)
                /\ connections' = connections + SendConnections
                /\ pc' = "done"
                /\ ending' = "direct_answer"
                /\ UNCHANGED <<plan, idx, step>>
          [] DecisionBranch(d.kind) = "reject" ->
                /\ \E m \in Sends(Message("agent_error",
                                          Result("error", <<"LLM did not provide a valid tool call or answer.">>))) :
                       sent' = Append(sent, m)
                /\ connections' = connections + SendConnections
                /\ pc' = "done"
                /\ ending' = "invalid_decision"
                /\ UNCHANGED <<plan, idx, step>>
          [] OTHER ->
                /\ plan' = d.calls
                /\ idx' = 1
                /\ IF d.calls = <<>>
                   THEN pc' = "plan" /\ step' = step + 1
                   ELSE pc' = "exec" /\ UNCHANGED step
                /\ UNCHANGED <<sent, connections, ending>>
    /\ step_num' = StepNum(step)
    /\ UNCHANGED <<max_steps, strategy, memory, query, final_answer, returned, dispatched, call, live, answering, ncalls>>
    /\ UNCHANGED stack
    /\ registryFrame

\* Lines 44-143: placeholder substitution of tool_calls_to_execute[i], the
\* tool_call record, and the start of call_mcp_tool.
ToolLoopExecute ==
    /\ stack = "listener"
    /\ pc = "exec"
    /\ LET inv == plan[idx]
           r == ResolvePlaceholder(memory, inv.value)
       IN  IF ~r.ok
           THEN /\ \E m \in Sends(Message("agent_error", Result("error", <<r.error>>))) :
                       sent' = Append(sent, m)
                /\ connections' = connections + SendConnections
                /\ pc' = "done"
                /\ ending' = "placeholder_error"
                /\ UNCHANGED <<plan, memory, dispatched, call, live, answering, ncalls>>
           ELSE /\ plan' = [plan EXCEPT ![idx].value = r.value]
                /\ memory' = Append(memory, ToolCallRecord(inv.tool_name, r.value))
                /\ dispatched' = Append(dispatched,
                                        [tool_name |-> inv.tool_name, value |-> r.value,
                                         conn |-> StartCall(inv.tool_name).conn])
                /\ call' = StartCall(inv.tool_name)
                /\ live' = LiveAfterOpen(live, StartCall(inv.tool_name))
                /\ \E a \in Answers(StartCall(inv.tool_name)) : answering' = a
                /\ ncalls' = ncalls + 1
                /\ connections' = IF StartCall(inv.tool_name).conn # None
                                  THEN connections + 1 ELSE connections
                /\ pc' = "call"
                /\ UNCHANGED <<sent, ending>>
    /\ UNCHANGED <<step_num, max_steps, strategy, step, idx, query, final_answer, returned, asked, iterations,
                   decision>>
    /\ UNCHANGED stack
    /\ registryFrame

\* A loop that returns after telegram_send_message at any position.
AfterResultDeliveredAnywhere(name, result, i, n) ==
    IF result.kind = "error" THEN "return_error"
    ELSE IF name = "telegram_send_message" THEN "return_delivered"
    ELSE IF i < n THEN "next_invocation"
    ELSE "next_step"

\* What the loop does once the tool_result record is written (lines 182-190).
AfterResult(name, result, i, n) ==
    IF result.kind = "error" THEN "return_error"
    ELSE IF name = "telegram_send_message" /\ i = n THEN "return_delivered"
    ELSE IF i < n THEN "next_invocation"
    ELSE "next_step"

\* Lines 143-190: call_mcp_tool returns, the result is processed and
\* recorded, and the loop decides how to go on.
ToolLoopRecord ==
    /\ stack = "listener"
    /\ pc = "call"
    /\ \E o \in CallOutcomes :
        LET c == IF call.state = "open" THEN FinishCall(call, o) ELSE call
            name == plan[idx].tool_name
        IN  /\ call.state = "open" => o \in Resolutions
            /\ call.state # "open" => o = "ok"
            /\ call' = c
            /\ live' = IF call.state = "open" THEN LiveAfterCall(live, o) ELSE live
            /\ answering' = TRUE
            /\ IF name = None
               THEN \* tool_name.startswith("gdrive_") on None raises AttributeError
                    /\ pc' = "raised"
                    /\ ending' = "raised"
                    /\ UNCHANGED <<memory, sent, connections, idx, step>>
               ELSE \E res \in ToolResults(name, c) :
                    /\ memory' = MemoryAfterResult(memory, name, res)
                    /\ CASE AfterResult(name, res, idx, Len(plan)) = "return_error" ->
                              /\ IF name # "telegram_send_message"
                                 THEN /\ \E m \in Sends(Message("tool_error", res)) :
                                            sent' = Append(sent, m)
                                      /\ connections' = connections + SendConnections
                                 ELSE UNCHANGED <<sent, connections>>
                              /\ pc' = "done"
                              /\ ending' = "tool_error"
                              /\ UNCHANGED <<idx, step>>
                         [] AfterResult(name, res, idx, Len(plan)) = "return_delivered" ->
                              /\ pc' = "done"
                              /\ ending' = "delivered"
                              /\ UNCHANGED <<sent, connections, idx, step>>
                         [] AfterResult(name, res, idx, Len(plan)) = "next_invocation" ->
                              /\ idx' = idx + 1
                              /\ pc' = "exec"
                              /\ UNCHANGED <<sent, connections, ending, step>>
                         [] OTHER ->
                              /\ step' = step + 1
                              /\ pc' = "plan"
                              /\ UNCHANGED <<sent, connections, ending, idx>>
    /\ UNCHANGED <<step_num, max_steps, strategy, plan, query, final_answer, returned, asked, iterations,
                   dispatched, ncalls, decision>>
    /\ UNCHANGED stack
    /\ registryFrame

\* Lines 191-197: the for loop is exhausted.
ToolLoopExhausted ==
    /\ stack = "listener"
    /\ pc = "plan"
    /\ ~InRange(step, max_steps)
    /\ \E m \in Sends(FinalWords(memory)) : sent' = Append(sent, m)
    /\ connections' = connections + SendConnections
    /\ pc' = "done"
    /\ ending' = "max_steps"
    /\ UNCHANGED <<step_num, max_steps, strategy, step, plan, idx, memory, query, final_answer, returned,
                   asked, iterations, dispatched, call, live, answering, ncalls, decision>>
    /\ UNCHANGED stack
    /\ registryFrame

(***************************************************************************)
(* AgentLoop.run (core/loop.py) with decide_next_action (core/strategy.py).*)
(***************************************************************************)
\* The working query: the user's goal, or the prompt built from the last
\* tool result / the last tool error.
Query(kind, tool, detail) == [kind |-> kind, tool |-> tool, detail |-> detail]

GoalQuery == Query("goal", None, None)

\* The plan line generate_plan returns: a FINAL_ANSWER line, a FUNCTION_CALL
\* line that parse_function_call accepts, one it rejects, or a FUNCTION_CALL
\* line carrying the text "FINAL_ANSWER:" in an argument. `unknown` tells
\* whether the line contains the word "unknown".
PlanLine(kind, tool, unknown) == [kind |-> kind, tool |-> tool, unknown |-> unknown]

AgentPlans ==
    { PlanLine("final", None, FALSE),
      PlanLine("final", None, TRUE),
      PlanLine("final_embedded", "telegram_send_message", FALSE),
      PlanLine("unparseable", None, FALSE),
      PlanLine("call", "ddg_search", FALSE),
      PlanLine("call", "ddg_search", TRUE),
      PlanLine("call", "telegram_send_message", FALSE),
      PlanLine("call", "no_such_tool", FALSE) }

\* How extract_perception's tool_hint comes back: a string (or None), or a
\* JSON list, on which filter_tools_by_hint's hint.lower() raises.
Perceptions == {"hint_text", "hint_list"}

\* decide_next_action: the number of generate_plan requests for a first plan.
PlanRequests(first) ==
    IF strategy = "retry_once" /\ first.unknown THEN 2 ELSE 1

\* decide_next_action: the plans it can return when the first one is `first`.
DecidedPlans(first) ==
    IF strategy = "retry_once" /\ first.unknown THEN AgentPlans ELSE {first}

MemoryItem(type, tool, text) ==
    [type |-> type, tool_name |-> tool, session_id |-> "session-1", text |-> text]

\* The text of a plan line, element by element (the words after the prefix
\* stand for any words).
PlanText(p) ==
    CASE p.kind = "final" -> FINAL_PREFIX \o <<" ", "answer">>
      [] p.kind = "final_embedded" ->
            PREFIX \o <<" ", p.tool, "(", "text", "=", QUOTE, "FINAL_ANSWER", ":", " ", "answer", QUOTE, ")">>
      [] p.kind = "unparseable" -> PREFIX \o <<" ", "search", " ", "for", " ", "it">>
      [] OTHER -> PREFIX \o <<" ", p.tool, "(", ")">>

\* AgentContext.final_answer before an answer is set (None), and the value
\* of a run that has not returned; like None it is false in line 237.
NoAnswer == <<>>

\* Lines 144-156 and 229-232: the final answer a plan that is no dispatched
\* tool call leaves.
FinalAnswerOf(p) ==
    IF p.kind \in {"final", "final_embedded"}
    THEN LET final_lines == SelectSeq(SplitLines(PlanText(p)),
                                      LAMBDA line : StartsWith(Strip(line), FINAL_PREFIX))
         IN  IF final_lines # <<>> THEN Strip(final_lines[Len(final_lines)])
             ELSE FINAL_PREFIX \o <<" ", "[result found, but could not extract]">>
    ELSE FINAL_PREFIX \o <<" ", "I encountered an error while processing your request: ",
                           "Could not parse function call from: ">> \o PlanText(p)

\* A return that hands out final_answer as it is.
ReturnValueWithoutDefault(answer) == answer

\* Line 237: the value run() returns.
ReturnValue(answer) ==
    IF answer # NoAnswer THEN answer ELSE FINAL_PREFIX \o <<" ", "[no result]">>

\* Lines 79-173: perception, planning and the start of the tool call.
AgentPlan ==
    /\ stack = "agent"
    /\ pc = "plan"
    /\ InRange(step, max_steps)
    /\ iterations' = iterations + 1
    /\ \E perception \in Perceptions :
        IF perception = "hint_list"
        THEN \* decide_next_action raises; the outer handler ends the session
             /\ pc' = "done"
             /\ ending' = "session_failed"
             /\ returned' = ReturnValue(final_answer)
             /\ UNCHANGED <<asked, plan, final_answer, call, live, answering, ncalls, connections, dispatched,
                            decision, step_num>>
        ELSE \E first \in AgentPlans : \E p \in DecidedPlans(first) :
             /\ asked' = asked + PlanRequests(first)
             /\ step_num' = StepNum(step)
             /\ plan' = <<p>>
             /\ decision' = p.kind
             /\ IF p.kind = "call"
                THEN /\ call' = StartCall(p.tool)
                     /\ live' = LiveAfterOpen(live, StartCall(p.tool))
                     /\ \E a \in Answers(StartCall(p.tool)) : answering' = a
                     /\ ncalls' = ncalls + 1
                     /\ connections' = IF StartCall(p.tool).conn # None
                                       THEN connections + 1 ELSE connections
                     /\ dispatched' = Append(dispatched,
                                             [tool_name |-> p.tool, value |-> None,
                                              conn |-> StartCall(p.tool).conn])
                     /\ pc' = "call"
                     /\ UNCHANGED <<final_answer, returned, ending>>
                ELSE /\ final_answer' = FinalAnswerOf(p)
                     /\ returned' = ReturnValue(FinalAnswerOf(p))
                     /\ pc' = "done"
                     /\ ending' = IF p.kind = "unparseable" THEN "parse_error" ELSE "final_answer"
                     /\ UNCHANGED <<call, live, answering, ncalls, connections, dispatched>>
    /\ UNCHANGED <<max_steps, strategy, step, idx, memory, query, sent>>
    /\ UNCHANGED stack
    /\ registryFrame

\* A recording that files every call as a tool_output.
AgentMemoryItemAlwaysOutput(c) == MemoryItem("tool_output", c.name, "result")

\* The memory record of a finished call (lines 186-194 and 212-220).
AgentMemoryItem(c) ==
    IF c.raised THEN MemoryItem("tool_error", c.name, c.result)
    ELSE MemoryItem("tool_output", c.name, "result")

\* A next query that never tells of the failure.
NextQueryWithoutError(c) == Query("tool_result", c.name, "result")

\* The query of the next step (lines 197-206 and 223-227).
NextQuery(c) ==
    IF c.raised THEN Query("tool_error", c.name, c.result)
    ELSE Query("tool_result", c.name, "result")

\* Lines 173-228: call_tool returns or raises; the memory record is added
\* and the next step's query is built.
AgentRecord ==
    /\ stack = "agent"
    /\ pc = "call"
    /\ \E o \in CallOutcomes :
        LET c == IF call.state = "open" THEN FinishCall(call, o) ELSE call
        IN  /\ call.state = "open" => o \in Resolutions
            /\ call.state # "open" => o = "ok"
            /\ call' = c
            /\ live' = IF call.state = "open" THEN LiveAfterCall(live, o) ELSE live
            /\ answering' = TRUE
            /\ memory' = Append(memory, AgentMemoryItem(c))
            /\ query' = NextQuery(c)
    /\ step' = step + 1
    /\ pc' = "plan"
    /\ UNCHANGED <<step_num, max_steps, strategy, plan, idx, final_answer, returned, asked, iterations,
                   dispatched, sent, ending, ncalls, connections, decision>>
    /\ UNCHANGED stack
    /\ registryFrame

\* Line 237 after the for loop ran out of steps.
AgentExhausted ==
    /\ stack = "agent"
    /\ pc = "plan"
    /\ ~InRange(step, max_steps)
    /\ returned' = ReturnValue(final_answer)
    /\ pc' = "done"
    /\ ending' = "max_steps"
    /\ UNCHANGED <<step_num, max_steps, strategy, step, plan, idx, memory, query, final_answer,
                   asked, iterations, dispatched, sent, call, live, answering, ncalls, connections, decision>>
    /\ UNCHANGED stack
    /\ registryFrame

\* The tasks of two notifications that arrive close together.
Handlers == {1, 2}

Waiting == [pc |-> "waiting", pos |-> 0, all |-> <<>>, ran |-> FALSE]

NoLookup == [name |-> None, endpoint |-> None, table |-> EmptyMap, seen |-> FALSE]

\* A decision text and how it was written: the form it is in (None when it
\* is in none), for a JSON object its shape and layout, and the invocation
\* it was written from.
Response(form, shape, layout, text, tool, args) ==
    [form |-> form, shape |-> shape, layout |-> layout, text |-> text, tool |-> tool, args |-> args]

NoResponse == Response(None, 0, None, <<>>, <<>>, VNone)

\* No substitution is under study.
NoSubstitution ==
    /\ substitution = [memory |-> <<>>, tool_name |-> None, key |-> None, value |-> None]
    /\ substituted = <<>>

\* A retrieve call with its arguments and the list it returned.
Retrieval(top_k, type_filter, session_filter, items) ==
    [top_k |-> top_k, type_filter |-> type_filter, session_filter |-> session_filter,
     items |-> items]

NoRetrieval == Retrieval(0, None, None, <<>>)

\* No memory store is under study.
NoStore ==
    /\ memories = <<>>
    /\ retrieved = NoRetrieval
    /\ now = 0

\* An agentic_tool_loop call of one task: where it stands, its loop
\* variable, its plan and position in it, the history last handed to the
\* oracle, and the argument values it dispatched.
NoLoop ==
    [pc |-> "absent", step |-> 0, plan |-> <<>>, idx |-> 0, offered |-> <<>>, dispatched |-> <<>>]

\* No concurrent sessions are under study.
NoSessions ==
    /\ sessions = [h \in Handlers |-> NoLoop]
    /\ stores = [h \in Handlers |-> <<>>]

\* What a request of generate_plan to the planning oracle came to: whether
\* GEMINI_API_KEY is set, how the request ended, and the text of the reply.
OracleReply(api_key, outcome, raw) == [api_key |-> api_key, outcome |-> outcome, raw |-> raw]

NoReply == OracleReply(FALSE, None, <<>>)

\* No generate_plan call is under study.
NoPlan ==
    /\ reply = NoReply
    /\ planned = <<>>

\* The clients of the Telegram MCP server's SSE endpoint: the orchestrator's
\* listener (listen_to_source_sse) and the connections call_mcp_tool and
\* discovery open for one request each.
SseClients == {"listener", "call1", "call2"}

\* The Telegram MCP server has no connection and has seen no message.
NoServer ==
    /\ sse_connections = [c \in SseClients |-> "absent"]
    /\ sse_output_stream = None
    /\ forwarded = <<>>

\* What a request of _sync_gemini_request came to: whether Gemini is enabled,
\* how the request ended, and the text of the first candidate.
LlmOutcome(enabled, outcome, text) == [enabled |-> enabled, outcome |-> outcome, text |-> text]

\* No ask_llm_for_tool_decision call is under study.
NoAsk ==
    /\ llm = LlmOutcome(FALSE, None, <<>>)
    /\ decided = <<>>
    /\ told = <<>>

\* listen_to_source_sse: where it stands, the connection attempts it made,
\* and how the last one ended.
Listening(lpc, attempts, last) == [pc |-> lpc, attempts |-> attempts, last |-> last]

\* No listener is under study.
NoListener ==
    /\ retry_delay = 0
    /\ listener = Listening("absent", 0, None)

NoLate == NoServer /\ NoAsk /\ NoListener

NoPure == NoSubstitution /\ NoStore /\ NoSessions /\ NoPlan /\ NoLate

\* No function application is under study.
NoFunction ==
    /\ arguments = VNone
    /\ normalized = <<>>
    /\ response = NoResponse
    /\ parsed = <<>>
    /\ NoPure

\* No notification task exists.
NoTasks ==
    /\ handlers = [h \in Handlers |-> [Waiting EXCEPT !.pc = "absent"]]
    /\ built = [h \in Handlers |-> EmptyMap]
    /\ observed = [h \in Handlers |-> NoLookup]
    /\ NoFunction

(***************************************************************************)
(* The registry on its own: discovery passes and dispatcher calls.         *)
(***************************************************************************)
NoSession ==
    /\ max_steps = 0
    /\ strategy = "conservative"
    /\ pc = "idle"
    /\ step = 0
    /\ step_num = 0
    /\ decision = None
    /\ plan = <<>>
    /\ idx = 0
    /\ memory = <<>>
    /\ query = GoalQuery
    /\ final_answer = NoAnswer
    /\ returned = NoAnswer
    /\ asked = 0
    /\ iterations = 0
    /\ dispatched = <<>>
    /\ sent = <<>>
    /\ ending = None

RegistryInit ==
    /\ stack \in {"listener", "agent"}
    /\ advertised \in Advertisements
    /\ configured \in {ServerSet, ServerSet \ {"GDrive"}}
    /\ tool_to_endpoint_map = EmptyMap
    /\ available_mcp_tools = NoCatalog
    /\ all_discovered_tools = <<>>
    /\ tool_map = EmptyMap
    /\ dpos = 0
    /\ reached = {}
    /\ visited = {}
    /\ passes = 0
    /\ call = NoCall
    /\ live = 0
    /\ answering = TRUE
    /\ ncalls = 0
    /\ connections = 0
    /\ NoSession
    /\ NoTasks

RegistryNext ==
    \/ DiscoverBegin
    \/ DiscoverVisit
    \/ InitializeBegin
    \/ InitializeVisit
    \/ CallBegin
    \/ CallEnd

RegistrySpec == RegistryInit /\ [][RegistryNext]_vars

(***************************************************************************)
(* handle_notification tasks (perception.py): every notification of the    *)
(* source stream runs as its own task; a task that finds no catalog runs   *)
(* discover_mcp_tools itself and then agentic_tool_loop, whose tool calls  *)
(* look the tool up in tool_to_endpoint_map.                               *)
(***************************************************************************)
taskFrame ==
    UNCHANGED <<stack, advertised, configured, all_discovered_tools, tool_map, dpos, reached,
                visited, passes, call, live, answering, ncalls, connections, loopVars, fnVars>>

\* Lines 86-95 and 53-68: the task reads available_mcp_tools; when it is
\* None the task enters discover_mcp_tools, which clears the table before
\* its first await.
HandleNotification(h) ==
    /\ handlers[h].pc = "waiting"
    /\ IF available_mcp_tools.is_none
       THEN /\ tool_to_endpoint_map' = EmptyMap
            /\ IF NextConfigured(1) > NumServers
               THEN /\ handlers' = [handlers EXCEPT ![h] = [pc |-> "loop", pos |-> 0,
                                                            all |-> <<>>, ran |-> TRUE]]
                    /\ available_mcp_tools' = Catalog(<<>>)
               ELSE /\ handlers' = [handlers EXCEPT ![h] = [pc |-> "discover",
                                                            pos |-> NextConfigured(1),
                                                            all |-> <<>>, ran |-> TRUE]]
                    /\ UNCHANGED available_mcp_tools
       ELSE /\ handlers' = [handlers EXCEPT ![h].pc = "loop"]
            /\ UNCHANGED <<tool_to_endpoint_map, available_mcp_tools>>
    /\ UNCHANGED <<built, observed>>
    /\ taskFrame

\* Lines 64-76: one server of the task's pass answers or fails; after the
\* last one the task publishes its catalog and goes on to the loop.
HandlerDiscover(h) ==
    /\ handlers[h].pc = "discover"
    /\ \E outcome \in DiscoveryOutcomes :
        LET s == servers_to_discover[handlers[h].pos]
            all == handlers[h].all \o DiscoveredEntries(s, outcome)
        IN  /\ tool_to_endpoint_map' = DiscoveredMapListener(tool_to_endpoint_map, s, outcome)
            /\ built' = [built EXCEPT ![h] = DiscoveredMapListener(built[h], s, outcome)]
            /\ IF NextConfigured(handlers[h].pos + 1) > NumServers
               THEN /\ handlers' = [handlers EXCEPT ![h].pc = "loop", ![h].pos = 0,
                                                     ![h].all = all]
                    /\ available_mcp_tools' = Catalog(all)
               ELSE /\ handlers' = [handlers EXCEPT ![h].pos = NextConfigured(handlers[h].pos + 1),
                                                     ![h].all = all]
                    /\ UNCHANGED available_mcp_tools
    /\ UNCHANGED observed
    /\ taskFrame

\* agentic_tool_loop of the task reaches call_mcp_tool (action.py line 14):
\* the lookup of a planned tool in the table as it stands.
HandlerLookup(h) ==
    /\ handlers[h].pc = "loop"
    /\ \E name \in ToolNames :
        observed' = [observed EXCEPT ![h] = [name |-> name,
                                             endpoint |-> Get(tool_to_endpoint_map, name),
                                             table |-> tool_to_endpoint_map,
                                             seen |-> TRUE]]
    /\ handlers' = [handlers EXCEPT ![h].pc = "done"]
    /\ UNCHANGED <<tool_to_endpoint_map, available_mcp_tools, built>>
    /\ taskFrame

NotifyInit ==
    /\ stack = "listener"
    /\ advertised = OwnTools
    /\ configured = ServerSet
    /\ tool_to_endpoint_map = EmptyMap
    /\ available_mcp_tools = NoCatalog
    /\ all_discovered_tools = <<>>
    /\ tool_map = EmptyMap
    /\ dpos = 0
    /\ reached = {}
    /\ visited = {}
    /\ passes = 0
    /\ call = NoCall
    /\ live = 0
    /\ answering = TRUE
    /\ ncalls = 0
    /\ connections = 0
    /\ NoSession
    /\ handlers = [h \in Handlers |-> Waiting]
    /\ built = [h \in Handlers |-> EmptyMap]
    /\ observed = [h \in Handlers |-> NoLookup]
    /\ NoFunction

NotifyNext ==
    \/ \E h \in Handlers : HandleNotification(h)
    \/ \E h \in Handlers : HandlerDiscover(h)
    \/ \E h \in Handlers : HandlerLookup(h)

NotifySpec == NotifyInit /\ [][NotifyNext]_vars

(***************************************************************************)
(* The argument normalization of MultiMCP.call_tool on its own: call_tool  *)
(* is handed some arguments, and is handed again what the normalization    *)
(* made of them.                                                           *)
(***************************************************************************)
\* Longest string argument.
MaxTextLen == 3
\* Successive normalizations of one argument.
MaxNormalizations == 2

\* The characters of the string arguments.
NormalizeAlphabet == {"a", "1", "=", QUOTE, ","}

\* The arguments call_tool is handed: every string over the alphabet up to
\* the length bound, and some mappings.
NormalizeInputs ==
    {VStr(str) : str \in UNION {[1..k -> NormalizeAlphabet] : k \in 0..MaxTextLen}}
    \cup {VMap(<<>>),
          VMap(<<Item(<<"a">>, VInt(1))>>),
          VMap(<<Item(<<"a">>, VStr(<<"a", "=", "1">>))>>),
          VMap(<<Item(<<"a">>, VStr(<<"1">>)), Item(<<"b">>, VBool(TRUE))>>)}

\* Nothing but the function under study is running.
Quiet ==
    /\ stack = "agent"
    /\ advertised = OwnTools
    /\ configured = ServerSet
    /\ tool_to_endpoint_map = EmptyMap
    /\ available_mcp_tools = NoCatalog
    /\ all_discovered_tools = <<>>
    /\ tool_map = EmptyMap
    /\ dpos = 0
    /\ reached = {}
    /\ visited = {}
    /\ passes = 0
    /\ call = NoCall
    /\ live = 0
    /\ answering = TRUE
    /\ ncalls = 0
    /\ connections = 0
    /\ NoSession
    /\ handlers = [h \in Handlers |-> [Waiting EXCEPT !.pc = "absent"]]
    /\ built = [h \in Handlers |-> EmptyMap]
    /\ observed = [h \in Handlers |-> NoLookup]

quietFrame == UNCHANGED <<stack, regVars, loopVars, taskVars, pureVars>>

\* Lines 55-103 applied to the arguments, then to their own result.
Normalize ==
    /\ arguments # VNone
    /\ Len(normalized) < MaxNormalizations
    /\ normalized' = Append(normalized,
                            normalize(IF normalized = <<>> THEN arguments
                                      ELSE normalized[Len(normalized)]))
    /\ UNCHANGED <<arguments, response, parsed>>
    /\ quietFrame

NormalizeInit ==
    /\ Quiet
    /\ arguments \in NormalizeInputs
    /\ normalized = <<>>
    /\ response = NoResponse
    /\ parsed = <<>>
    /\ NoPure

NormalizeNext == Normalize

NormalizeSpec == NormalizeInit /\ [][NormalizeNext]_vars

(***************************************************************************)
(* parse_function_call on its own: it is handed one decision text.         *)
(* The texts are invocations written in the formats of its docstring       *)
(* (lines 20-25), each value spelled as the literal the parser evaluates,  *)
(* and texts in none of the formats.                                       *)
(***************************************************************************)
\* str(n) for 0 <= n.
RECURSIVE DigitsOf(_)
DigitsOf(n) ==
    IF n < 10 THEN <<(<<"0", "1", "2", "3", "4", "5", "6", "7", "8", "9">>)[n + 1]>>
    ELSE DigitsOf(n \div 10) \o DigitsOf(n % 10)

\* sep.join(texts)
RECURSIVE Join(_, _)
Join(texts, sep) ==
    IF texts = <<>> THEN <<>>
    ELSE IF Len(texts) = 1 THEN texts[1]
    ELSE texts[1] \o sep \o Join(Tail(texts), sep)

\* A value written as the literal the parser evaluates: JSON as json.dumps
\* writes it, Python as repr writes it with double quotes.
RECURSIVE Literal(_, _)
Literal(v, json) ==
    CASE v.t = "int" -> DigitsOf(v.i)
      [] v.t = "str" -> <<QUOTE>> \o v.s \o <<QUOTE>>
      [] v.t = "bool" -> IF json THEN <<IF v.b THEN "true" ELSE "false">>
                         ELSE <<IF v.b THEN "True" ELSE "False">>
      [] v.t = "none" -> <<IF json THEN "null" ELSE "None">>
      [] v.t = "list" ->
            <<"[">> \o Join([p \in 1..Len(v.items) |-> Literal(v.items[p].v, json)], <<",", " ">>)
                    \o <<"]">>
      [] OTHER ->
            <<"{">> \o Join([p \in 1..Len(v.items) |->
                               <<QUOTE>> \o v.items[p].k \o <<QUOTE, ":", " ">>
                               \o Literal(v.items[p].v, json)], <<",", " ">>)
                    \o <<"}">>

\* FUNCTION_CALL: tool_name(param1="value1", param2=2)
CallExpression(tool, args) ==
    PREFIX \o <<" ">> \o tool \o <<"(">>
    \o Join([p \in 1..Len(args.items) |->
               args.items[p].k \o <<"=">> \o Literal(args.items[p].v, FALSE)], <<",", " ">>)
    \o <<")">>

\* The parts of the pipe format for one argument: key=value, and one
\* key.inner=value per member for a nested mapping.
PipeParts(it) ==
    IF it.v.t = "map" /\ it.v.items # <<>>
    THEN [p \in 1..Len(it.v.items) |->
            it.k \o <<".">> \o it.v.items[p].k \o <<"=">> \o Literal(it.v.items[p].v, FALSE)]
    ELSE <<it.k \o <<"=">> \o Literal(it.v, FALSE)>>

RECURSIVE AllPipeParts(_)
AllPipeParts(items) ==
    IF items = <<>> THEN <<>> ELSE PipeParts(Head(items)) \o AllPipeParts(Tail(items))

\* FUNCTION_CALL: tool_name|param1=value1|param2=value2
PipeDelimited(tool, args) ==
    PREFIX \o <<" ">> \o Join(<<tool>> \o AllPipeParts(args.items), <<"|">>)

\* The members of the JSON object of each recognized shape.
JsonMembers(shape, tool, args) ==
    CASE shape = 1 -> <<Item(<<"tool_name">>, VStr(tool)), Item(<<"parameters">>, args)>>
      [] shape = 2 -> <<Item(<<"tool">>, VStr(tool)), Item(<<"tool_input">>, args)>>
      [] OTHER -> <<Item(<<"tool">>, VStr(tool))>> \o args.items

\* The JSON object on one line (json.dumps) or with one member per line
\* (json.dumps with indent), after the prefix or on its own.
JsonObject(shape, layout, prefixed, tool, args) ==
    LET members == JsonMembers(shape, tool, args)
        lines == [p \in 1..Len(members) |->
                    <<" ", QUOTE>> \o members[p].k \o <<QUOTE, ":", " ">>
                    \o Literal(members[p].v, TRUE)]
    IN  (IF prefixed THEN PREFIX \o <<" ">> ELSE <<>>)
        \o (IF layout = "line" THEN Literal(VMap(members), TRUE)
            ELSE <<"{", NEWLINE>> \o Join(lines, <<",", NEWLINE>>) \o <<NEWLINE, "}">>)

\* The tools and the arguments the texts are written from.
WrittenTools == {<<"search">>, <<"ddg_search">>}

WrittenArguments ==
    {VMap(<<>>),
     VMap(<<Item(<<"query">>, VStr(<<"x">>))>>),
     VMap(<<Item(<<"query">>, VStr(<<"a", "|", "b">>))>>),
     VMap(<<Item(<<"query">>, VStr(<<"a", "|", "b", "=", "c">>))>>),
     VMap(<<Item(<<"query">>, VStr(<<"a", ",", " ", "b">>))>>),
     VMap(<<Item(<<"query">>, VStr(<<"5">>))>>),
     VMap(<<Item(<<"query">>, VStr(<<"x">>)), Item(<<"max_results">>, VInt(3))>>),
     VMap(<<Item(<<"query">>, VStr(<<"a", "|", "b">>)), Item(<<"max_results">>, VInt(3))>>),
     VMap(<<Item(<<"max_results">>, VInt(12))>>),
     VMap(<<Item(<<"safe">>, VBool(TRUE))>>),
     VMap(<<Item(<<"values">>, VList(<<Item(<<>>, VInt(1)), Item(<<>>, VInt(2))>>))>>),
     VMap(<<Item(<<"values">>, VList(<<Item(<<>>, VStr(<<"a">>)), Item(<<>>, VStr(<<"b">>))>>))>>),
     VMap(<<Item(<<"input">>, VMap(<<Item(<<"value">>, VInt(1))>>))>>),
     VMap(<<Item(<<"input">>, VMap(<<Item(<<"value">>, VStr(<<"x">>)), Item(<<"safe">>, VBool(FALSE))>>)),
            Item(<<"max_results">>, VInt(7))>>)}

\* Decision texts in none of the formats.
OtherTexts ==
    {<<>>,
     <<"I", " ", "cannot", " ", "decide">>,
     <<"FINAL_ANSWER", ":", " ", "4", "2">>,
     PREFIX,
     PREFIX \o <<" ", "search">>,
     PREFIX \o <<" ", "search", "(", "query", "=", QUOTE, "x", QUOTE>>,
     PREFIX \o <<" ", "|", "query", "=", "x">>,
     <<"search", "(", "query", "=", QUOTE, "x", QUOTE, ")">>,
     <<"search", "|", "query", "=", "x">>,
     <<"{", QUOTE, "answer", QUOTE, ":", " ", "4", "2", "}">>,
     <<"{", QUOTE, "tool_name", QUOTE, ":", " ", QUOTE, "search", QUOTE, "}">>,
     <<"{", QUOTE, "tool", QUOTE, ":", " ", "4", "2", "}">>,
     <<"{", QUOTE, "tool", QUOTE, ":", " ", QUOTE, "search", QUOTE>>}

\* The decision texts parse_function_call is handed.
ParseInputs ==
    {Response("call", 0, "line", CallExpression(tool, args), tool, args) :
        tool \in WrittenTools, args \in WrittenArguments}
    \cup {Response("pipe", 0, "line", PipeDelimited(tool, args), tool, args) :
        tool \in WrittenTools, args \in WrittenArguments \ {VMap(<<>>)}}
    \cup UNION {{Response("json", shape, layout, JsonObject(shape, layout, prefixed, tool, args),
                          tool, args) :
                    tool \in WrittenTools, args \in WrittenArguments} :
                shape \in 1..3, layout \in {"line", "lines"}, prefixed \in BOOLEAN}
    \cup {Response(None, 0, "line", text, <<>>, VNone) : text \in OtherTexts}

\* parse_function_call is applied to the text.
Parse ==
    /\ response # NoResponse
    /\ parsed = <<>>
    /\ parsed' = <<parse_function_call(response.text)>>
    /\ UNCHANGED <<arguments, normalized, response>>
    /\ quietFrame

ParseInit ==
    /\ Quiet
    /\ arguments = VNone
    /\ normalized = <<>>
    /\ response \in ParseInputs
    /\ parsed = <<>>
    /\ NoPure

ParseNext == Parse

ParseSpec == ParseInit /\ [][ParseNext]_vars

(***************************************************************************)
(* The <extracted_...> substitution of agentic_tool_loop on its own         *)
(* (agent_loop.py 73-101): it is handed the session memory and one argument *)
(* of one invocation.  The texts of extract_text results are written out    *)
(* element by element.                                                      *)
(***************************************************************************)
\* The longest page text.
MaxPageLen == 4

PageAlphabet == {"a", "|", " ", NEWLINE}

RECURSIVE TextsUpTo(_)
\* The texts extract_text is seen to return: up to n elements.
TextsUpTo(n) ==
    IF n = 0 THEN {<<>>}
    ELSE TextsUpTo(n - 1)
         \cup {Append(t, c) : t \in {u \in TextsUpTo(n - 1) : Len(u) = n - 1}, c \in PageAlphabet}

PageTexts == TextsUpTo(MaxPageLen)

\* found_text when the scan finds no extract_text result (line 74).
NoExtractedText ==
    <<"No", " ", "extracted", " ", "text", " ", "found", " ", "for", " ", "placeholder", ".">>

\* The (tool_call, tool_result) pair a successful call leaves in the memory.
MemoryPair(name, input, result) ==
    <<ToolCallRecord(name, input), ToolResultRecord(name, result)>>

\* The session memories the substitution is run on: an extract_text of an
\* earlier step or none, then the extract_text that returned the page or
\* none, then a later call of another tool or none.
ExtractMemories ==
    {older \o newer \o later :
        older \in {<<>>, MemoryPair("extract_text", "https://a", Result("text", <<<<"a", "|", "a">>>>))},
        newer \in {<<>>} \cup {MemoryPair("extract_text", "https://b", Result("text", <<t>>)) :
                                   t \in PageTexts},
        later \in {<<>>, MemoryPair("ddg_search", "X", Result("links", <<"https://a", "https://b">>))}}

\* The arguments that carry an <extracted_...> placeholder.
ExtractArguments ==
    {Invocation("gdrive_write_sheet", "values", "<extracted_table>"),
     Invocation("gdrive_write_sheet", "range_name", "<extracted_range>"),
     Invocation("telegram_send_message", "text", "<extracted_text>")}

\* Lines 74-85: the result of the most recent extract_text record whose
\* result is a text, or the filler.
FoundText(mem) ==
    IF LastIndex(ExtractedTextAt(mem)) = 0 THEN NoExtractedText
    ELSE mem[LastIndex(ExtractedTextAt(mem))].result.val[1]

\* A line filter that keeps the lines without content.
HasContentOrNot(line_content) == TRUE

\* if line_content.strip(): (line 91)
HasContent(line_content) == Strip(line_content) # <<>>

\* [cell.strip() for cell in line_content.split('|')] (line 92)
Cells(line_content) ==
    [c \in 1..Len(Split(line_content, "|")) |-> Strip(Split(line_content, "|")[c])]

RECURSIVE RowsOfLines(_)
\* Lines 89-93: one row for every line that has content.
RowsOfLines(lines) ==
    IF lines = <<>> THEN <<>>
    ELSE IF HasContent(Head(lines)) THEN <<Cells(Head(lines))>> \o RowsOfLines(Tail(lines))
    ELSE RowsOfLines(Tail(lines))

\* Lines 88-94: found_text.strip().split('\n') turned into processed_values.
ProcessedValues(found_text) == RowsOfLines(Split(Strip(found_text), NEWLINE))

\* Lines 73-101: what tool_input[key] is set to.
SubstituteExtracted(mem, tool_name, key) ==
    IF tool_name = "gdrive_write_sheet" /\ key = "values"
    THEN ProcessedValues(FoundText(mem))
    ELSE FoundText(mem)

Substitute ==
    /\ substitution.tool_name # None
    /\ substituted = <<>>
    /\ substituted' = <<SubstituteExtracted(substitution.memory, substitution.tool_name,
                                            substitution.key)>>
    /\ UNCHANGED <<substitution, arguments, normalized, response, parsed, storeVars, sessionVars, planVars, lateVars>>
    /\ UNCHANGED <<stack, regVars, loopVars, taskVars>>

ExtractInit ==
    /\ Quiet
    /\ arguments = VNone
    /\ normalized = <<>>
    /\ response = NoResponse
    /\ parsed = <<>>
    /\ substitution \in {[memory |-> m, tool_name |-> a.tool_name, key |-> a.key, value |-> a.value] :
                             m \in ExtractMemories, a \in ExtractArguments}
    /\ substituted = <<>>
    /\ NoStore
    /\ NoSessions
    /\ NoPlan
    /\ NoLate

ExtractNext == Substitute

ExtractSpec == ExtractInit /\ [][ExtractNext]_vars

(***************************************************************************)
(* MemoryManager (modules/memory.py) on its own: one store, to which        *)
(* records are added and from which they are retrieved.                     *)
(***************************************************************************)
\* The most records added to the store.
MaxMemories == 3

\* The largest top_k asked for.
MaxTopK == 2

RecordTypes == {"tool_output", "tool_error"}

SessionIds == {"session-1", "session-2"}

\* A MemoryItem: id stands for the uuid and is the ordinal of the creation,
\* timestamp is the reading of time.time() at the creation.
StoredItem(id, type, session_id, timestamp) ==
    [id |-> id, type |-> type, session_id |-> session_id, timestamp |-> timestamp]

\* time.time() at a creation, the last reading being t: the wall clock has a
\* resolution and is not monotonic, so two creations can read the same time
\* (a reading below t, after the clock was set back, is left out).
ClockReadings(t) == {t, t + 1}

\* A store that puts a new record first.
MemoriesAfterAddInFront(mems, item) == <<item>> \o mems

\* MemoryManager.add (lines 33-37).
MemoriesAfterAdd(mems, item) == Append(mems, item)

\* [m for m in filtered_memories if ...] (lines 54-60): an empty or None
\* filter keeps every record.
Filtered(mems, type_filter, session_filter) ==
    SelectSeq(mems, LAMBDA m : /\ type_filter # None => m.type = type_filter
                               /\ session_filter # None => m.session_id = session_filter)

\* One record put in its place in a list sorted by falling timestamp, behind
\* the records of the same timestamp.
Inserted(sorted, m) ==
    LET before == {k \in 1..Len(sorted) : sorted[k].timestamp >= m.timestamp}
    IN  SubSeq(sorted, 1, Cardinality(before)) \o <<m>>
        \o SubSeq(sorted, Cardinality(before) + 1, Len(sorted))

RECURSIVE SortedByTimestamp(_, _)
\* list.sort(key=lambda x: x.timestamp, reverse=True) (line 63): a stable
\* sort, records of equal timestamp keep their order.
SortedByTimestamp(mems, acc) ==
    IF mems = <<>> THEN acc
    ELSE SortedByTimestamp(Tail(mems), Inserted(acc, Head(mems)))

\* filtered_memories[:top_k] (line 66)
FirstK(seq, top_k) == SubSeq(seq, 1, IF top_k < Len(seq) THEN top_k ELSE Len(seq))

\* MemoryManager.retrieve (lines 39-66): what it returns.
retrieve(mems, top_k, type_filter, session_filter) ==
    IF mems = <<>> THEN <<>>
    ELSE FirstK(SortedByTimestamp(Filtered(mems, type_filter, session_filter), <<>>), top_k)

\* A retrieve that sorts the store itself.
MemoriesAfterRetrieveSortedInPlace(mems) == SortedByTimestamp(mems, <<>>)

\* MemoryManager.retrieve works on self.memories.copy() (line 52).
MemoriesAfterRetrieve(mems) == mems

MemoryAdd ==
    /\ now > 0
    /\ Len(memories) < MaxMemories
    /\ \E type \in RecordTypes, session_id \in SessionIds, t \in ClockReadings(now) :
        /\ now' = t
        /\ memories' = MemoriesAfterAdd(memories,
                                        StoredItem(Len(memories) + 1, type, session_id, t))
    /\ UNCHANGED retrieved
    /\ UNCHANGED <<substitution, substituted, arguments, normalized, response, parsed, sessionVars, planVars, lateVars>>
    /\ UNCHANGED <<stack, regVars, loopVars, taskVars>>

MemoryRetrieve ==
    /\ now > 0
    /\ \E top_k \in 0..MaxTopK, type_filter \in RecordTypes \cup {None},
          session_filter \in SessionIds \cup {None} :
        retrieved' = Retrieval(top_k, type_filter, session_filter,
                               retrieve(memories, top_k, type_filter, session_filter))
    /\ memories' = MemoriesAfterRetrieve(memories)
    /\ UNCHANGED now
    /\ UNCHANGED <<substitution, substituted, arguments, normalized, response, parsed, sessionVars, planVars, lateVars>>
    /\ UNCHANGED <<stack, regVars, loopVars, taskVars>>

MemoryInit ==
    /\ Quiet
    /\ arguments = VNone
    /\ normalized = <<>>
    /\ response = NoResponse
    /\ parsed = <<>>
    /\ NoSubstitution
    /\ memories = <<>>
    /\ retrieved = NoRetrieval
    /\ now = 1
    /\ NoSessions
    /\ NoPlan
    /\ NoLate

MemoryNext == MemoryAdd \/ MemoryRetrieve

MemorySpec == MemoryInit /\ [][MemoryNext]_vars

(***************************************************************************)
(* Several agentic_tool_loop calls at once: listen_to_source_sse starts one *)
(* handle_notification task per notification (perception.py 129), and each *)
(* task's agentic_tool_loop call creates its own memory list (agent_loop.py *)
(* 24).  The tasks interleave at every await.  A record carries the task    *)
(* that wrote it (by), which the program does not store.                    *)
(***************************************************************************)
\* The step budget of these sessions.
MaxSessionSteps == 2

\* The plans the oracle answers these sessions with.
SessionPlans ==
    { << Invocation("ddg_search", "query", "X") >>,
      << Invocation("ddg_search", "query", "X"),
         Invocation("extract_text", "url", "<url_from_ddg_search_result_1>") >>,
      << Invocation("extract_text", "url", "<url_from_ddg_search_result_1>") >> }

\* What the tools return to the session of task h: every session is shown
\* pages of its own.
SessionResults(h, name) ==
    IF name = "ddg_search"
    THEN {Result("links", IF h = 1 THEN <<"https://a">> ELSE <<"https://b">>), Result("links", <<>>)}
    ELSE {Result("text", <<IF h = 1 THEN "page a" ELSE "page b">>)}

\* A memory list shared by all calls.
SharedMemoryOf(h) == 1

\* memory: List[...] = [] (line 24): the list of the call of task h is a
\* local of that call.
MemoryOf(h) == h

\* A record with the task that wrote it.
Written(h, rec) == [by |-> h, rec |-> rec]

\* The records of a store as the loop sees them.
Records(store) == [k \in 1..Len(store) |-> store[k].rec]

sessionsFrame ==
    /\ UNCHANGED <<substitution, substituted, arguments, normalized, response, parsed, storeVars, planVars, lateVars>>
    /\ UNCHANGED <<stack, regVars, loopVars, taskVars>>

\* asyncio.create_task(handle_notification(notification)) up to line 24 of
\* the agentic_tool_loop call it makes.
SessionStart(h) ==
    /\ sessions[h].pc = "waiting"
    /\ sessions' = [sessions EXCEPT ![h].pc = "plan"]
    /\ stores' = [stores EXCEPT ![MemoryOf(h)] = <<>>]
    /\ sessionsFrame

\* Lines 26-43: the oracle is handed the memory as history and answers with
\* a direct answer or a plan.
SessionAsk(h) ==
    /\ sessions[h].pc = "plan"
    /\ IF InRange(sessions[h].step, MaxSessionSteps)
       THEN \/ sessions' = [sessions EXCEPT ![h].pc = "done",
                                            ![h].offered = stores[MemoryOf(h)]]
            \/ \E p \in SessionPlans :
                   sessions' = [sessions EXCEPT ![h].pc = "exec", ![h].plan = p, ![h].idx = 1,
                                               ![h].offered = stores[MemoryOf(h)]]
       ELSE sessions' = [sessions EXCEPT ![h].pc = "done"]
    /\ UNCHANGED stores
    /\ sessionsFrame

\* Lines 44-143: placeholder substitution against the memory, the tool_call
\* record, the start of call_mcp_tool.
SessionExecute(h) ==
    /\ sessions[h].pc = "exec"
    /\ LET inv == sessions[h].plan[sessions[h].idx]
           r == ResolvePlaceholder(Records(stores[MemoryOf(h)]), inv.value)
       IN  IF ~r.ok
           THEN /\ sessions' = [sessions EXCEPT ![h].pc = "done"]
                /\ UNCHANGED stores
           ELSE /\ sessions' = [sessions EXCEPT ![h].pc = "call",
                                                ![h].plan[sessions[h].idx].value = r.value,
                                                ![h].dispatched = Append(@, r.value)]
                /\ stores' = [stores EXCEPT ![MemoryOf(h)] =
                                  Append(@, Written(h, ToolCallRecord(inv.tool_name, r.value)))]
    /\ sessionsFrame

\* Lines 143-190: the call returns, the tool_result record is written.
SessionRecord(h) ==
    /\ sessions[h].pc = "call"
    /\ LET name == sessions[h].plan[sessions[h].idx].tool_name
       IN  \E res \in SessionResults(h, name) \cup {Result("error", <<"Timeout">>)} :
            /\ stores' = [stores EXCEPT ![MemoryOf(h)] =
                              Append(@, Written(h, ToolResultRecord(name, res)))]
            /\ sessions' =
                  CASE AfterResult(name, res, sessions[h].idx, Len(sessions[h].plan)) = "return_error" ->
                           [sessions EXCEPT ![h].pc = "done"]
                    [] AfterResult(name, res, sessions[h].idx, Len(sessions[h].plan)) = "next_invocation" ->
                           [sessions EXCEPT ![h].pc = "exec", ![h].idx = @ + 1]
                    [] OTHER ->
                           [sessions EXCEPT ![h].pc = "plan", ![h].step = @ + 1]
    /\ sessionsFrame

SessionsInit ==
    /\ Quiet
    /\ arguments = VNone
    /\ normalized = <<>>
    /\ response = NoResponse
    /\ parsed = <<>>
    /\ NoSubstitution
    /\ NoStore
    /\ sessions = [h \in Handlers |-> [NoLoop EXCEPT !.pc = "waiting"]]
    /\ stores = [h \in Handlers |-> <<>>]
    /\ NoPlan
    /\ NoLate

SessionsNext ==
    \E h \in Handlers :
        \/ SessionStart(h)
        \/ SessionAsk(h)
        \/ SessionExecute(h)
        \/ SessionRecord(h)

SessionsSpec == SessionsInit /\ [][SessionsNext]_vars

(***************************************************************************)
(* generate_plan (modules/decision.py) on its own: one request to the       *)
(* planning oracle and what the function makes of its outcome.  The reply   *)
(* text is written out element by element; the words FUNCTION_CALL and      *)
(* FINAL_ANSWER and the code fence are one element each.                    *)
(***************************************************************************)
\* The longest reply text that is enumerated in full.
MaxReplyLen == 5

\* The longest text that is enumerated between two code fences.
MaxFencedLen == 3

\* The markdown code fence (three backquotes).
CODE_FENCE == "CODE_FENCE"

ReplyAlphabet == {"FUNCTION_CALL", "FINAL_ANSWER", ":", " ", NEWLINE, CODE_FENCE}

RECURSIVE RepliesUpTo(_)
\* The texts of up to n elements.
RepliesUpTo(n) ==
    IF n = 0 THEN {<<>>}
    ELSE RepliesUpTo(n - 1)
         \cup {Append(t, c) : t \in {u \in RepliesUpTo(n - 1) : Len(u) = n - 1}, c \in ReplyAlphabet}

\* A reply wrapped in a code fence: the fences on lines of their own.
Fenced(body) == <<CODE_FENCE, NEWLINE>> \o body \o <<NEWLINE, CODE_FENCE>>

ReplyTexts == RepliesUpTo(MaxReplyLen) \cup {Fenced(body) : body \in RepliesUpTo(MaxFencedLen)}

\* How a request ends short of a reply text:
\*   "raised"            building the prompt, session.post or response.json() raised;
\*   "status"            response.status != 200 (line 112);
\*   "no_candidates"     the body has no candidates / content / parts / text
\*                       key, so that the defaults of line 118 apply;
\*   "empty_candidates"  candidates or parts is an empty list: [0] raises IndexError;
\*   "not_text"          text is not a string: raw.strip() raises.
FailedOutcomes == {"raised", "status", "no_candidates", "empty_candidates", "not_text"}

PlanInputs ==
    {OracleReply(TRUE, "text", raw) : raw \in ReplyTexts}
    \cup {OracleReply(TRUE, o, <<>>) : o \in FailedOutcomes}
    \cup {OracleReply(FALSE, o, <<>>) : o \in FailedOutcomes \cup {"text"}}

\* What a call came to: the text it returned, or that it raised.
PlanReturned(val) == [raised |-> FALSE, val |-> val]

PlanRaised == [raised |-> TRUE, val |-> <<>>]

\* Line 35.
MissingKeyAnswer == FINAL_PREFIX \o <<" ", "Could not generate a plan due to missing API key.">>

\* Line 114.
ApiErrorAnswer == FINAL_PREFIX \o <<" ", "Could not generate a plan due to API error.">>

\* Line 128.
NoResultAnswer == FINAL_PREFIX \o <<" ", "[no result]">>

\* Line 132.
ErrorAnswer == FINAL_PREFIX \o <<" ", "Could not generate a plan due to an error.">>

\* The condition of line 124.
IsAnswerLine(line) ==
    StartsWith(Strip(line), PREFIX) \/ StartsWith(Strip(line), FINAL_PREFIX)

LastAnswerLine(lines) ==
    LET hits == {k \in 1..Len(lines) : IsAnswerLine(lines[k])}
    IN  IF hits = {} THEN 0 ELSE CHOOSE k \in hits : \A j \in hits : j <= k

\* The line at which the loop of lines 123-125 returns (0: it runs out).
FirstAnswerLine(lines) ==
    LET hits == {k \in 1..Len(lines) : IsAnswerLine(lines[k])}
    IN  IF hits = {} THEN 0 ELSE CHOOSE k \in hits : \A j \in hits : k <= j

\* Lines 119-128 on the text of the reply.
PlanOfText(raw) ==
    LET lines == SplitLines(Strip(raw))
        k == FirstAnswerLine(lines)
    IN  IF k = 0 THEN NoResultAnswer ELSE Strip(lines[k])

\* The body of the try statement (lines 31-128).
TryGeneratePlan(r) ==
    IF ~r.api_key THEN PlanReturned(MissingKeyAnswer)
    ELSE IF r.outcome = "raised" THEN PlanRaised
    ELSE IF r.outcome = "status" THEN PlanReturned(ApiErrorAnswer)
    ELSE IF r.outcome \in {"empty_candidates", "not_text"} THEN PlanRaised
    ELSE IF r.outcome = "no_candidates" THEN PlanReturned(PlanOfText(<<>>))
    ELSE PlanReturned(PlanOfText(r.raw))

\* generate_plan: the try statement with its except clause (lines 130-132).
generate_plan(r) ==
    IF TryGeneratePlan(r).raised THEN PlanReturned(ErrorAnswer) ELSE TryGeneratePlan(r)

GeneratePlan ==
    /\ reply.outcome # None
    /\ planned = <<>>
    /\ planned' = <<generate_plan(reply)>>
    /\ UNCHANGED <<reply, substitution, substituted, arguments, normalized, response, parsed,
                   storeVars, sessionVars, lateVars>>
    /\ UNCHANGED <<stack, regVars, loopVars, taskVars>>

PlanInit ==
    /\ Quiet
    /\ arguments = VNone
    /\ normalized = <<>>
    /\ response = NoResponse
    /\ parsed = <<>>
    /\ NoSubstitution
    /\ NoStore
    /\ NoSessions
    /\ reply \in PlanInputs
    /\ planned = <<>>
    /\ NoLate

PlanNext == GeneratePlan

PlanSpec == PlanInit /\ [][PlanNext]_vars

(***************************************************************************)
(* The Telegram MCP server (telegram_mcp/server.py): its SSE endpoint, the  *)
(* module global sse_output_stream, and the handler of incoming Telegram    *)
(* messages.  Every client of the endpoint goes through                     *)
(* handle_sse_connection: the orchestrator's listener, whose connection     *)
(* stays open, and each call_mcp_tool / discovery request, whose connection *)
(* lasts for that request (SOURCE_SSE_ENDPOINT and TELEGRAM_MCP_ENDPOINT    *)
(* are the same path, config.py 25-33).  The server runs on one event loop: *)
(* the statements between two awaits are one step.                          *)
(***************************************************************************)
\* The Telegram messages that are seen to arrive.
MaxMessages == 2

\* What became of an incoming message: the holder of the stream it was sent
\* to (None: no stream, line 83), whether send raised (line 80), and whether
\* the listener's connection was open at the time.
Forwarded(to, status, listening) == [to |-> to, status |-> status, listening |-> listening]

\* sse_output_stream.send(notification) returns or raises (lines 78-81).
SendStatuses == {"sent", "send_raised"}

\* Line 182: the global once a connection has its streams.
StreamAfterConnect(stream, c) == c

\* Line 190: the global once a connection ends.
StreamAfterClose(stream, c) == None

serverFrame == UNCHANGED <<stack, regVars, loopVars, taskVars, sideVars, askVars, listenVars>>

\* handle_sse_connection up to mcp_server_to_run.run (lines 164-186).
SseConnect(c) ==
    /\ sse_connections[c] # "open"
    /\ sse_connections' = [sse_connections EXCEPT ![c] = "open"]
    /\ sse_output_stream' = StreamAfterConnect(sse_output_stream, c)
    /\ UNCHANGED forwarded
    /\ serverFrame

\* handle_sse_connection from the return of run (lines 189-192).
SseClose(c) ==
    /\ sse_connections[c] = "open"
    /\ sse_connections' = [sse_connections EXCEPT ![c] = "closed"]
    /\ sse_output_stream' = StreamAfterClose(sse_output_stream, c)
    /\ UNCHANGED forwarded
    /\ serverFrame

\* handle_tg_message for a message with a text (lines 57-83).
HandleTgMessage ==
    /\ Len(forwarded) < MaxMessages
    /\ IF sse_output_stream # None
       THEN \E st \in SendStatuses :
                forwarded' = Append(forwarded,
                                    Forwarded(sse_output_stream, st,
                                              sse_connections["listener"] = "open"))
       ELSE forwarded' = Append(forwarded,
                                Forwarded(None, "no_stream", sse_connections["listener"] = "open"))
    /\ UNCHANGED <<sse_connections, sse_output_stream>>
    /\ serverFrame

ServerInit ==
    /\ Quiet
    /\ arguments = VNone
    /\ normalized = <<>>
    /\ response = NoResponse
    /\ parsed = <<>>
    /\ NoSubstitution
    /\ NoStore
    /\ NoSessions
    /\ NoPlan
    /\ NoServer
    /\ NoAsk
    /\ NoListener

ServerNext ==
    \/ \E c \in SseClients : SseConnect(c)
    \/ \E c \in SseClients : SseClose(c)
    \/ HandleTgMessage

ServerSpec == ServerInit /\ [][ServerNext]_vars

\* ---------------------------------------------------------------------
\* listen_to_source_sse of perception.py: the reconnect loop of the
\* orchestrator's listener.
\* ---------------------------------------------------------------------

\* The connection attempts followed.
MaxAttempts == 6

\* Line 111 and line 119.
InitialRetryDelay == 5

\* Line 112.
max_retry_delay == 60

Min(a, b) == IF a <= b THEN a ELSE b

\* A loop that doubles the delay without the cap.
NextDelayUncapped(d) == d * 2

\* Line 160: retry_delay = min(retry_delay * 2, max_retry_delay).
NextDelay(d) == Min(d * 2, max_retry_delay)

\* How client.stream(...) can come out (lines 115-117 and 150-157): the
\* response's status is 200 or something else, or the request raises.
ConnectOutcomes == {"status_200", "status_other", "ConnectError", "ReadTimeout", "StreamError", "Exception"}

\* How the reading of an open stream can end (lines 120, 143 and 152-157).
StreamEndings == {"stream_closed", "ReadTimeout", "StreamError", "Exception"}

listenFrame == UNCHANGED <<stack, regVars, loopVars, taskVars, sideVars, serverVars, askVars>>

\* Lines 113-119 and 144-157: one pass of the while loop up to the status
\* check. Status 200 resets the delay and starts the reading; any other
\* status (its body read or not) and every exception lead to line 158.
ListenConnect(o) ==
    /\ listener.pc = "connecting"
    /\ listener.attempts < MaxAttempts
    /\ IF o = "status_200"
       THEN /\ retry_delay' = InitialRetryDelay
            /\ listener' = Listening("listening", listener.attempts + 1, o)
       ELSE /\ UNCHANGED retry_delay
            /\ listener' = Listening("waiting", listener.attempts + 1, o)
    /\ listenFrame

\* Lines 120-142: one line of the stream is read and handled; whatever the
\* line holds, the loop over the lines goes on.
ListenLine ==
    /\ listener.pc = "listening"
    /\ listener' = Listening("listening", listener.attempts, "line")
    /\ UNCHANGED retry_delay
    /\ listenFrame

\* Lines 143 and 152-157: the stream ends or the reading raises.
ListenStreamEnds(o) ==
    /\ listener.pc = "listening"
    /\ listener' = Listening("waiting", listener.attempts, o)
    /\ UNCHANGED retry_delay
    /\ listenFrame

\* Lines 158-160: the sleep of retry_delay seconds and the new delay.
ListenSleep ==
    /\ listener.pc = "waiting"
    /\ retry_delay' = NextDelay(retry_delay)
    /\ listener' = Listening("connecting", listener.attempts, listener.last)
    /\ listenFrame

\* Lines 110-113: the state at the first pass of the loop.
ListenInit ==
    /\ Quiet
    /\ arguments = VNone
    /\ normalized = <<>>
    /\ response = NoResponse
    /\ parsed = <<>>
    /\ NoSubstitution
    /\ NoStore
    /\ NoSessions
    /\ NoPlan
    /\ NoServer
    /\ NoAsk
    /\ retry_delay = InitialRetryDelay
    /\ listener = Listening("connecting", 0, None)

ListenNext ==
    \/ \E o \in ConnectOutcomes : ListenConnect(o)
    \/ ListenLine
    \/ \E o \in StreamEndings : ListenStreamEnds(o)
    \/ ListenSleep

ListenSpec == ListenInit /\ [][ListenNext]_vars

\* ---------------------------------------------------------------------
\* ask_llm_for_tool_decision and _sync_gemini_request of decision.py, and
\* the dispatch of agentic_tool_loop on what they return.
\* ---------------------------------------------------------------------

\* The elements of a candidate's text next to its JSON documents.
MaxLlmTextLen == 2

\* A JSON value as the code looks at it: its type, the keys of a mapping,
\* the values of its tool_name and direct_answer keys (None and the empty
\* text when absent), and the items of a list.
JsonValue(type, keys, tool_name, direct_answer, items) ==
    [type |-> type, keys |-> keys, tool_name |-> tool_name, direct_answer |-> direct_answer,
     items |-> items]

\* The Python value None.
NoneValue == JsonValue("none", {}, None, <<>>, <<>>)

\* {"tool_name": None, "direct_answer": text}
AnswerMapping(text) == JsonValue("dict", {"tool_name", "direct_answer"}, None, text, <<>>)

\* The JSON documents a candidate's text is seen to hold, each one element
\* of the text, and what json.loads makes of them.
JsonDocuments ==
    {"DOC_CALL", "DOC_NULL_CALL", "DOC_ANSWER", "DOC_EMPTY_ANSWER", "DOC_OTHER_DICT",
     "DOC_PLAN", "DOC_EMPTY_LIST", "DOC_BAD_LIST", "DOC_SCALAR"}

ToolCallValue == JsonValue("dict", {"tool_name", "tool_input"}, "ddg_search", <<>>, <<>>)

OtherDictValue == JsonValue("dict", {"foo"}, None, <<>>, <<>>)

ScalarValue == JsonValue("other", {}, None, <<>>, <<>>)

DocumentValue(doc) ==
    CASE doc = "DOC_CALL" -> ToolCallValue
      [] doc = "DOC_NULL_CALL" -> JsonValue("dict", {"tool_name"}, None, <<>>, <<>>)
      [] doc = "DOC_ANSWER" -> AnswerMapping(<<"answer">>)
      [] doc = "DOC_EMPTY_ANSWER" -> JsonValue("dict", {"direct_answer"}, None, <<>>, <<>>)
      [] doc = "DOC_OTHER_DICT" -> OtherDictValue
      [] doc = "DOC_PLAN" -> JsonValue("list", {}, None, <<>>, <<ToolCallValue, ToolCallValue>>)
      [] doc = "DOC_EMPTY_LIST" -> JsonValue("list", {}, None, <<>>, <<>>)
      [] doc = "DOC_BAD_LIST" -> JsonValue("list", {}, None, <<>>, <<ToolCallValue, ScalarValue>>)
      [] OTHER -> ScalarValue

LlmAlphabet == {" ", "word", "json", CODE_FENCE} \cup JsonDocuments

RECURSIVE LlmTextsUpTo(_)
\* The texts of up to n elements.
LlmTextsUpTo(n) ==
    IF n = 0 THEN {<<>>}
    ELSE LlmTextsUpTo(n - 1)
         \cup {Append(t, c) : t \in {u \in LlmTextsUpTo(n - 1) : Len(u) = n - 1}, c \in LlmAlphabet}

\* The texts of a first candidate: plain ones and ones in a code fence,
\* tagged json or not, closed or not.
LlmTexts ==
    LlmTextsUpTo(MaxLlmTextLen)
    \cup {open \o body \o close : open \in {<<CODE_FENCE, "json">>, <<CODE_FENCE>>},
                                   body \in LlmTextsUpTo(MaxLlmTextLen),
                                   close \in {<<>>, <<CODE_FENCE>>}}

\* How a request ends short of a candidate's text:
\*   "thread_error"    asyncio.to_thread raised (line 177);
\*   "no_url"          GEMINI_API_URL is empty (line 10);
\*   "http_error"      raise_for_status raised (lines 22, 75);
\*   "network_error"   requests.post raised (lines 20, 78);
\*   "bad_body"        response.json() raised, or the body is no mapping;
\*   "blocked"         no candidates, with promptFeedback (lines 27-31);
\*   "no_candidates"   no candidates, no promptFeedback (line 33);
\*   "finish_reason"   a finishReason such as SAFETY (lines 35-40);
\*   "no_text_part"    no parts, or no text in the first part (lines 43-45).
FailedRequests ==
    {"thread_error", "no_url", "http_error", "network_error", "bad_body", "blocked",
     "no_candidates", "finish_reason", "no_text_part"}

\* The oracle outcomes followed.
LlmOutcomes ==
    {LlmOutcome(FALSE, "disabled", <<>>)}
    \cup {LlmOutcome(TRUE, o, <<>>) : o \in FailedRequests}
    \cup {LlmOutcome(TRUE, "text", t) : t \in LlmTexts}

\* str.endswith(suffix)
EndsWith(str, suffix) ==
    Len(str) >= Len(suffix) /\ SubSeq(str, Len(str) - Len(suffix) + 1, Len(str)) = suffix

\* cleaned_text[:-3] for a text that ends with the fence.
WithoutClosingFence(text) ==
    IF EndsWith(text, <<CODE_FENCE>>) THEN SubSeq(text, 1, Len(text) - 1) ELSE text

\* Lines 49-56: the text json.loads is given.
CleanedText(raw_text) ==
    Strip(IF StartsWith(raw_text, <<CODE_FENCE, "json">>)
            THEN WithoutClosingFence(SubSeq(raw_text, 3, Len(raw_text)))
          ELSE IF StartsWith(raw_text, <<CODE_FENCE>>)
            THEN WithoutClosingFence(SubSeq(raw_text, 2, Len(raw_text)))
          ELSE raw_text)

\* json.loads accepts one document with white space around it.
IsJson(text) == Len(Strip(text)) = 1 /\ Strip(text)[1] \in JsonDocuments

JsonLoads(text) == DocumentValue(Strip(text)[1])

\* A check of the list that accepts every list.
IsToolCallListUnchecked(items) == TRUE

\* Line 59: all(isinstance(item, dict) and "tool_name" in item for item in decision_data)
IsToolCallList(items) ==
    \A k \in 1..Len(items) : items[k].type = "dict" /\ "tool_name" \in items[k].keys

\* Lines 47-73: the decision made of the first candidate's text.
DecisionOfText(text) ==
    LET raw_text == Strip(text)
        cleaned_text == CleanedText(raw_text)
    IN  IF ~IsJson(cleaned_text) THEN AnswerMapping(raw_text)
        ELSE LET decision_data == JsonLoads(cleaned_text)
             IN  IF decision_data.type = "list"
                 THEN IF IsToolCallList(decision_data.items)
                      THEN decision_data
                      ELSE AnswerMapping(raw_text)
                 ELSE IF decision_data.type = "dict"
                 THEN IF "tool_name" \in decision_data.keys \/ "direct_answer" \in decision_data.keys
                      THEN decision_data
                      ELSE AnswerMapping(raw_text)
                 ELSE AnswerMapping(raw_text)

\* Lines 8-86: the values _sync_gemini_request can return. A body that
\* cannot be decoded raises a RequestException or a ValueError, depending
\* on the requests release.
_sync_gemini_request(l) ==
    CASE ~l.enabled \/ l.outcome = "no_url" -> {AnswerMapping(<<"[LLM Disabled]">>)}
      [] l.outcome = "http_error" -> {AnswerMapping(<<"[LLM HTTP Error: ", "status", "]">>)}
      [] l.outcome = "network_error" -> {AnswerMapping(<<"[LLM Network Error]">>)}
      [] l.outcome = "bad_body" -> {AnswerMapping(<<"[LLM Network Error]">>),
                                    AnswerMapping(<<"[LLM Processing Error]">>)}
      [] l.outcome = "blocked" ->
            {AnswerMapping(<<"[LLM Error: Request blocked. Reason: ", "reason", "]">>)}
      [] l.outcome = "no_candidates" -> {AnswerMapping(<<"[LLM Error: No 'candidates']">>)}
      [] l.outcome = "finish_reason" ->
            {AnswerMapping(<<"[LLM Responded with Finish Reason: ", "reason", "]">>)}
      [] l.outcome = "no_text_part" ->
            {AnswerMapping(<<"[LLM Error: No text part. Reason: ", "reason", "]">>)}
      [] OTHER -> {DecisionOfText(l.text)}

\* Lines 88-178: the values ask_llm_for_tool_decision can return.
ask_llm_for_tool_decision(l) ==
    IF ~l.enabled THEN {AnswerMapping(<<"[LLM Disabled]">>)}
    ELSE IF l.outcome = "thread_error" THEN {AnswerMapping(<<"[LLM Thread Error: ", "error", "]">>)}
    ELSE {IF d = NoneValue
          THEN AnswerMapping(<<"[LLM Error: Decision function returned None]">>)
          ELSE d : d \in _sync_gemini_request(l)}

\* The shape of a decision as lines 31-39 of agent_loop.py tell it.
DecisionKind(d) ==
    IF d.type = "dict" /\ d.direct_answer # <<>> THEN "direct"
    ELSE IF d.type = "list" THEN "list"
    ELSE IF d.type = "dict" /\ d.tool_name # None THEN "single"
    ELSE "neither"

\* What the loop does with a decision: the branch taken and the text handed
\* to send_telegram_message (lines 31-43 of agent_loop.py).
Told(branch, text) == [branch |-> branch, text |-> text]

ToldOf(d) ==
    CASE DecisionBranch(DecisionKind(d)) = "answer" -> Told("answer", d.direct_answer)
      [] DecisionBranch(DecisionKind(d)) = "reject" ->
            Told("reject", <<"[Agent Error: LLM did not provide a valid tool call or answer.]">>)
      [] OTHER -> Told("execute", <<>>)

askFrame == UNCHANGED <<stack, regVars, loopVars, taskVars, sideVars, serverVars, listenVars>>

\* ask_llm_for_tool_decision is awaited (agent_loop.py line 29).
AskLlm ==
    /\ decided = <<>>
    /\ \E d \in ask_llm_for_tool_decision(llm) : decided' = <<d>>
    /\ UNCHANGED <<llm, told>>
    /\ askFrame

\* The loop takes the decision up (agent_loop.py lines 31-43).
ToolLoopDispatch ==
    /\ decided # <<>>
    /\ told = <<>>
    /\ told' = <<ToldOf(decided[1])>>
    /\ UNCHANGED <<llm, decided>>
    /\ askFrame

AskInit ==
    /\ Quiet
    /\ arguments = VNone
    /\ normalized = <<>>
    /\ response = NoResponse
    /\ parsed = <<>>
    /\ NoSubstitution
    /\ NoStore
    /\ NoSessions
    /\ NoPlan
    /\ NoServer
    /\ NoListener
    /\ llm \in LlmOutcomes
    /\ decided = <<>>
    /\ told = <<>>

AskNext ==
    \/ AskLlm
    \/ ToolLoopDispatch

AskSpec == AskInit /\ [][AskNext]_vars

(***************************************************************************)
(* One session on a discovered registry.                                   *)
(***************************************************************************)
\* The routing map / catalog a completed pass leaves when exactly the
\* servers in `up` answer.
RECURSIVE ListenerMapAfter(_, _, _)
ListenerMapAfter(map, k, up) ==
    IF k > NumServers THEN map
    ELSE LET s == servers_to_discover[k]
         IN  ListenerMapAfter(
                 IF s \in configured
                 THEN DiscoveredMapListener(map, s, IF s \in up THEN "ok" ELSE "Error")
                 ELSE map,
                 k + 1, up)

RECURSIVE CatalogAfter(_, _, _)
CatalogAfter(all, k, up) ==
    IF k > NumServers THEN all
    ELSE LET s == servers_to_discover[k]
         IN  CatalogAfter(
                 IF s \in configured
                 THEN all \o DiscoveredEntries(s, IF s \in up THEN "ok" ELSE "Error")
                 ELSE all,
                 k + 1, up)

RECURSIVE AgentMapAfter(_, _, _)
AgentMapAfter(map, k, up) ==
    IF k > NumServers THEN map
    ELSE LET s == servers_to_discover[k]
         IN  AgentMapAfter(DiscoveredMapAgent(map, s, IF s \in up THEN "ok" ELSE "Error"),
                           k + 1, up)

Init ==
    /\ stack \in {"listener", "agent"}
    /\ advertised = OwnTools
    /\ configured = ServerSet
    /\ \E up \in {ServerSet, ServerSet \ {"Telegram"}} :
        /\ reached = up
        /\ tool_to_endpoint_map =
              IF stack = "listener" THEN ListenerMapAfter(EmptyMap, 1, up) ELSE EmptyMap
        /\ available_mcp_tools =
              IF stack = "listener" THEN Catalog(CatalogAfter(<<>>, 1, up)) ELSE NoCatalog
        /\ all_discovered_tools =
              IF stack = "listener" THEN CatalogAfter(<<>>, 1, up) ELSE <<>>
        /\ tool_map = IF stack = "agent" THEN AgentMapAfter(EmptyMap, 1, up) ELSE EmptyMap
    /\ visited = ServerSet
    /\ dpos = 0
    /\ passes = 1
    /\ call = NoCall
    /\ live = 0
    /\ answering = TRUE
    /\ ncalls = 0
    /\ connections = 0
    /\ max_steps \in 0..MaxSteps
    /\ strategy \in IF stack = "agent" THEN {"conservative", "retry_once"} ELSE {"conservative"}
    /\ pc = "plan"
    /\ step = 0
    /\ step_num = 0
    /\ decision = None
    /\ plan = <<>>
    /\ idx = 0
    /\ memory = <<>>
    /\ query = GoalQuery
    /\ final_answer = NoAnswer
    /\ returned = NoAnswer
    /\ asked = 0
    /\ iterations = 0
    /\ dispatched = <<>>
    /\ sent = <<>>
    /\ ending = None
    /\ NoTasks

Next ==
    \/ ToolLoopAsk
    \/ ToolLoopExecute
    \/ ToolLoopRecord
    \/ ToolLoopExhausted
    \/ AgentPlan
    \/ AgentRecord
    \/ AgentExhausted

Spec == Init /\ [][Next]_vars

\* The sessions under a scheduler that keeps running whatever can run: the
\* event loop resumes every coroutine whose await has completed.
LiveSpec == Spec /\ WF_vars(Next)

(***************************************************************************)
(* Properties of the two session loops and of the registry.                *)
(***************************************************************************)
\* The memory is a sequence of adjacent (tool_call, tool_result) pairs of one
\* tool each, one pair per dispatched invocation and in dispatch order.
PairedMemory(mem, calls) ==
    /\ Len(mem) = 2 * Len(calls)
    /\ \A k \in 1..Len(calls) :
        /\ mem[2 * k - 1].type = "tool_call"
        /\ mem[2 * k].type = "tool_result"
        /\ mem[2 * k - 1].tool_name = calls[k].tool_name
        /\ mem[2 * k].tool_name = calls[k].tool_name
        /\ mem[2 * k - 1].input = calls[k].value

NoFailureRecorded ==
    \A k \in 1..Len(memory) :
        IF stack = "listener" THEN ~HasError(memory[k]) ELSE memory[k].type # "tool_error"

\* Every decision of the oracle so far was a tool call that was dispatched
\* and succeeded (an empty plan counts as a call-free iteration).
OracleAlwaysCalledWithSuccess ==
    /\ ending \notin {"direct_answer", "invalid_decision", "placeholder_error", "tool_error",
                      "raised", "final_answer", "parse_error", "session_failed"}
    /\ NoFailureRecorded

\* generate_plan requests one planning iteration can make.
RequestsPerIteration ==
    IF stack = "agent" /\ strategy = "retry_once" THEN 2 ELSE 1

\* C2 as stated: a session requests at most max_steps plans, and with an
\* oracle whose every decision is a tool call that succeeds it performs
\* exactly max_steps iterations and ends in the budget-exhausted outcome.
C2_AsStated ==
    /\ asked <= max_steps
    /\ (pc = "done" /\ OracleAlwaysCalledWithSuccess)
            => (iterations = max_steps /\ ending = "max_steps")

\* C2: a session never starts more than max_steps planning iterations;
\* agentic_tool_loop requests exactly one plan per iteration, AgentLoop.run
\* at most one per iteration, or two under the retry_once strategy; and with
\* an oracle whose every decision is a tool call that succeeds, a session
\* that does not end on a delivered telegram_send_message performs exactly
\* max_steps iterations and ends in the budget-exhausted outcome.
C2_PlanBudget ==
    /\ iterations <= max_steps
    /\ step <= max_steps
    /\ stack = "listener" => asked = iterations
    /\ stack = "agent" => asked <= RequestsPerIteration * iterations
    /\ (pc = "done" /\ OracleAlwaysCalledWithSuccess /\ ending # "delivered")
            => (iterations = max_steps /\ ending = "max_steps")

\* C2 witness: the budget-exhausted end of a session of the largest budget
\* in which every iteration dispatched a call and none failed.
C2_Witness ==
    /\ pc = "done"
    /\ ending = "max_steps"
    /\ max_steps = MaxSteps
    /\ iterations = max_steps
    /\ Len(dispatched) >= max_steps
    /\ NoFailureRecorded

\* A tool_result record of a call that succeeded.
IsSuccess(m) == m.type = "tool_result" /\ ~HasError(m)

IsToolOutput(m) == m.type = "tool_output"

SuccessAt == {k \in 1..Len(memory) : IsSuccess(memory[k])}

ToolOutputAt == {k \in 1..Len(memory) : IsToolOutput(memory[k])}

\* C3 as stated: a session that ends budget-exhausted after at least one
\* successful tool call closes with a message that carries the last
\* successful tool result: the closing Telegram message of
\* agentic_tool_loop, the value AgentLoop.run returns.
C3_AsStated ==
    (pc = "done" /\ ending = "max_steps") =>
        IF stack = "listener"
        THEN LastIndex(SuccessAt) > 0 =>
                /\ sent # <<>>
                /\ sent[Len(sent)].kind = "max_steps"
                /\ sent[Len(sent)].detail = memory[LastIndex(SuccessAt)].result
        ELSE LastIndex(ToolOutputAt) > 0 =>
                returned # FINAL_PREFIX \o <<" ", "[no result]">>

C5_AsStated ==
    (/\ stack = "listener"
     /\ pc \in {"plan", "done"}
     /\ memory # <<>>
     /\ HasError(memory[Len(memory)])) =>
        IF memory[Len(memory)].tool_name = "telegram_send_message"
        THEN pc = "done" /\ ending = "tool_error"
        ELSE InRange(step + 1, max_steps) => ending # "tool_error"

\* C6: in AgentLoop.run a failure of MultiMCP.call_tool does not leave the
\* loop: exactly one tool_error record naming the tool and the session is
\* appended to the memory, the next step's query carries the error text,
\* nothing is returned, and the loop stands at its next step.
C6_ToolFailureIsRecorded ==
    [][ (stack = "agent" /\ pc = "call" /\ pc' # "call" /\ IsError(call')) =>
            /\ Len(memory') = Len(memory) + 1
            /\ SubSeq(memory', 1, Len(memory)) = memory
            /\ memory'[Len(memory')] =
                   [type |-> "tool_error", tool_name |-> call'.name,
                    session_id |-> "session-1", text |-> call'.result]
            /\ query' = [kind |-> "tool_error", tool |-> call'.name, detail |-> call'.result]
            /\ pc' = "plan"
            /\ step' = step + 1
            /\ returned' = NoAnswer
            /\ ending' = None
      ]_vars

\* C6 witness: AgentLoop.run at the start of a further step, with budget
\* left, after a call that timed out.
C6_Witness ==
    /\ stack = "agent"
    /\ pc = "plan"
    /\ InRange(step, max_steps)
    /\ memory # <<>>
    /\ memory[Len(memory)].type = "tool_error"
    /\ memory[Len(memory)].text = "Timeout"
    /\ query.kind = "tool_error"

\* The routing table of the running stack.
RoutingTable == IF stack = "listener" THEN tool_to_endpoint_map ELSE tool_map

\* C7: after any sequence of discovery passes, a dispatch (MultiMCP.call_tool
\* or call_mcp_tool) of a tool name that has no entry in the routing table
\* ends at once with the unknown-tool error (raised by call_tool, returned
\* by call_mcp_tool) and opens no connection to any server.
C7_UnknownToolOpensNoConnection ==
    [][ (ncalls' = ncalls + 1 /\ call'.name \notin DOMAIN RoutingTable) =>
            /\ call'.state = "done"
            /\ call'.result = "UnknownTool"
            /\ call'.conn = None
            /\ call'.raised = (stack = "agent")
            /\ connections' = connections
      ]_vars

\* C7 witness: after the last discovery pass, in which Trafilatura did not
\* answer, its tool extract_text was dispatched and refused.
C7_Witness ==
    /\ passes = MaxPasses
    /\ dpos = 0
    /\ "Trafilatura" \in visited \ reached
    /\ call.name = "extract_text"
    /\ call.result = "UnknownTool"
    /\ call.conn = None

\* A routing miss happened in the session.
RoutingMissAt(k) == dispatched[k].conn = None

\* C8 as stated: a routing miss is fatal to its plan step and reported: no
\* invocation is dispatched after it in agentic_tool_loop, and the session
\* ends with an outcome that describes the failure: a tool-error message
\* with the unknown-tool error sent to the user by agentic_tool_loop, a
\* tool-failure outcome of AgentLoop.run.
C8_AsStated ==
    \A k \in 1..Len(dispatched) :
        (RoutingMissAt(k) /\ pc = "done") =>
            IF stack = "listener"
            THEN /\ k = Len(dispatched)
                 /\ \E j \in 1..Len(sent) :
                        /\ sent[j].kind = "tool_error"
                        /\ sent[j].detail = Result("error", <<"UnknownTool">>)
            ELSE ending = "tool_error"

\* Every tool a reached server advertises.
ReachedTools == UNION {Range(advertised[s]) : s \in reached}

\* The names of the catalog the running stack offers to the oracle.
CatalogNames ==
    IF stack = "listener"
    THEN {available_mcp_tools.tools[k].tool_name : k \in 1..Len(available_mcp_tools.tools)}
    ELSE get_all_tools

\* C9: when a discovery pass (discover_mcp_tools, MultiMCP.initialize) is
\* complete, every configured server has been visited whatever the servers
\* before it did, and every tool of every server that answered is in the
\* catalog, is in the routing table and is dispatched to a server that
\* advertised it.
C9_DiscoveryToleratesFailure ==
    (passes > 0 /\ dpos = 0) =>
        /\ visited = (IF stack = "listener" THEN configured ELSE ServerSet)
        /\ \A t \in ReachedTools :
            /\ t \in CatalogNames
            /\ t \in DOMAIN RoutingTable
            /\ StartCall(t).state = "open"
            /\ \E s \in reached : t \in Range(advertised[s]) /\ StartCall(t).conn = Endpoint(s)

\* C9 witness: a complete pass in which the first server failed and the last
\* one answered, followed by an opened call of a tool of the last server.
C9_Witness ==
    /\ passes > 0
    /\ dpos = 0
    /\ "DuckDuckGo" \in visited \ reached
    /\ "GDrive" \in reached
    /\ call.state = "open"
    /\ call.conn = Endpoint("GDrive")

\* The number of tools the reached servers among the first k advertise.
RECURSIVE ReachedCount(_)
ReachedCount(k) ==
    IF k = 0 THEN 0
    ELSE ReachedCount(k - 1)
         + (IF servers_to_discover[k] \in reached THEN Len(advertised[servers_to_discover[k]]) ELSE 0)

\* C10: when the servers advertise pairwise disjoint tool sets, after
\* MultiMCP.initialize the catalog of get_all_tools is the union of the
\* tool sets of the servers that answered, one entry each; every catalog
\* tool is dispatched to the server that advertised it; and a name outside
\* the catalog gets the unknown-tool error.
C10_DisjointUnion ==
    (stack = "agent" /\ PairwiseDisjoint(advertised) /\ passes > 0 /\ dpos = 0) =>
        /\ get_all_tools = ReachedTools
        /\ Cardinality(get_all_tools) = ReachedCount(NumServers)
        /\ \A t \in get_all_tools :
               /\ tool_map[t] \in reached
               /\ t \in Range(advertised[tool_map[t]])
               /\ StartCall(t).state = "open"
               /\ StartCall(t).conn = tool_map[t]
        /\ \A n \in ToolNames \ get_all_tools :
               /\ StartCall(n).result = "UnknownTool"
               /\ StartCall(n).conn = None

\* C10 witness: with disjoint tool sets, three servers answered, and a name
\* outside the catalog was dispatched and refused.
C10_Witness ==
    /\ stack = "agent"
    /\ PairwiseDisjoint(advertised)
    /\ passes > 0
    /\ dpos = 0
    /\ Cardinality(reached) = 3
    /\ Cardinality(get_all_tools) >= 3
    /\ call.name \notin get_all_tools
    /\ call.result = "UnknownTool"

\* The positions, in the configured order, of the reached servers that
\* advertise the tool t.
AdvertisersOf(t) ==
    {k \in 1..NumServers :
        servers_to_discover[k] \in reached /\ t \in Range(advertised[servers_to_discover[k]])}

\* C11: after a discovery pass the routing table has one entry per tool
\* name (it is a function on the names the reached servers advertise), and
\* a name that several servers advertise is routed to the one discovered
\* last in the configured server order.
C11_LastWriterWins ==
    (passes > 0 /\ dpos = 0) =>
        /\ DOMAIN RoutingTable = ReachedTools
        /\ \A t \in DOMAIN RoutingTable :
               \E k \in AdvertisersOf(t) :
                   /\ \A j \in AdvertisersOf(t) : j <= k
                   /\ RoutingTable[t] =
                        (IF stack = "listener" THEN Endpoint(servers_to_discover[k])
                         ELSE servers_to_discover[k])

\* C11 witness: Trafilatura and GDrive both answered and both advertise
\* extract_text, which is routed to GDrive, the later of the two.
C11_Witness ==
    /\ passes > 0
    /\ dpos = 0
    /\ {"Trafilatura", "GDrive"} \subseteq reached
    /\ "extract_text" \in Range(advertised["GDrive"])
    /\ "extract_text" \in DOMAIN RoutingTable
    /\ Cardinality(AdvertisersOf("extract_text")) = 2

\* The tables of the discovery passes that ran to their end.
CompleteTables == {built[h] : h \in {g \in Handlers : handlers[g].ran}}

AllPassesComplete == \A h \in Handlers : handlers[h].pc \in {"loop", "done"}

\* C12 as stated: the table a call_mcp_tool lookup observed is the complete
\* table of a discovery pass, also when two notification tasks ran
\* discover_mcp_tools at the same time; no lookup saw a table that a pass
\* had cleared and only partly written again.
C12_AsStated ==
    AllPassesComplete =>
        \A h \in Handlers : observed[h].seen => observed[h].table \in CompleteTables

\* The invocations of the session that were routed to a server.
RoutedDispatches == {k \in 1..Len(dispatched) : dispatched[k].conn # None}

\* The send_telegram_message invocations that went through call_mcp_tool.
RoutedSends == {j \in 1..Len(sent) : sent[j].status # "no_channel"}

\* C13: every routed tool call opens a connection of its own and the
\* connection is closed when the call returns, however it ends: while a
\* call is in progress exactly its one connection is open, between the
\* calls of a session none is, and the session has opened as many
\* connections as it made routed calls.
C13_ConnectionPerCall ==
    /\ live = (IF call.state = "open" THEN 1 ELSE 0)
    /\ pc \in {"plan", "exec", "done", "raised"} => live = 0
    /\ connections = Cardinality(RoutedDispatches) + Cardinality(RoutedSends)

\* C13 witness: a session stands between two calls after a second routed
\* call that failed, with two connections opened and none open.
C13_Witness ==
    /\ pc = "plan"
    /\ Cardinality(RoutedDispatches) = 2
    /\ call.state = "done"
    /\ call.conn # None
    /\ IsError(call)
    /\ live = 0

\* C14 as stated: every dispatched tool call eventually resolves, also when
\* the server it was routed to never answers.
C14_AsStated == (call.state = "open") ~> (call.state = "done")

\* C15 as stated: a tool call that failed (unknown tool, connection
\* failure, timeout, remote tool error) has returned an error value and has
\* not raised an exception out of the dispatcher.
C15_AsStated == (call.state = "done" /\ IsError(call)) => ~call.raised

\* C16: normalizing the arguments of MultiMCP.call_tool is idempotent:
\* normalizing what a normalization returned returns the same value, for
\* every string and every mapping.
C16_AsStated ==
    \A k \in 2..Len(normalized) : normalized[k] = normalized[k - 1]

\* What parse_function_call returns for a text that is parsed as the
\* invocation it was written from.
AsWritten == Returned(VStr(response.tool), response.args)

\* C17: the call-expression form has priority: a text that is a well-formed
\* call-expression is parsed as a call-expression, also when it contains a
\* "|" character.
C17_AsStated ==
    (parsed # <<>> /\ response.form = "call") =>
        /\ parsed[1] = ParenthesesFormat(FunctionText(response.text))
        /\ parsed[1] = AsWritten

\* C18: for each of the three formats, parsing the text an invocation
\* (tool, args) is written as returns exactly (tool, args).
C18_AsStated ==
    (parsed # <<>> /\ response.form # None /\ response.layout = "line") =>
        parsed[1] = AsWritten

\* C19: parse_function_call raises exactly when the text is in none of the
\* supported formats, and returns no pair for such a text.
C19_AsStated ==
    parsed # <<>> => (parsed[1].ok <=> response.form # None)

\* The oracle's last decision is neither a direct answer nor a tool
\* invocation: an object without answer and tool name, a plan with an item
\* that names no tool, or a plan line parse_function_call rejects.
UnrecognizedDecision ==
    \/ stack = "listener" /\ decision = "neither"
    \/ stack = "listener" /\ decision = "list" /\ \E k \in 1..Len(plan) : plan[k].tool_name = None
    \/ stack = "agent" /\ decision = "unparseable"

\* The session has ended with an error message for the user.
ErrorReported ==
    /\ pc = "done"
    /\ IF stack = "listener"
       THEN sent # <<>> /\ sent[Len(sent)].kind = "agent_error"
       ELSE returned = FinalAnswerOf(PlanLine("unparseable", None, FALSE))

\* C20: an oracle decision that is neither a direct answer nor a tool
\* invocation ends the plan step with an error message for the user; nothing
\* is dispatched for it and no memory record is added for it.
C20_AsStated ==
    UnrecognizedDecision =>
        /\ ErrorReported
        /\ \A k \in 1..Len(dispatched) : dispatched[k].tool_name # None
        /\ \A k \in 1..Len(memory) : memory[k].tool_name # None

\* The placeholder that asks for the n-th link of a search.
UrlPlaceholder(n) ==
    CASE n = 1 -> "<url_from_ddg_search_result_1>"
      [] n = 2 -> "<url_from_ddg_search_result_2>"
      [] n = 5 -> "<url_from_ddg_search_result_5>"
      [] OTHER -> None

\* The records of the memory that hold a list-typed ddg_search result.
LinkListsAt ==
    {k \in 1..Len(memory) :
        /\ memory[k].type = "tool_result"
        /\ memory[k].tool_name = "ddg_search"
        /\ memory[k].result.kind = "links"}

\* The step of agentic_tool_loop that ends the session with an error message
\* for the user and dispatches and records nothing.
HaltsWithAgentError ==
    /\ pc' = "done"
    /\ Len(sent') = Len(sent) + 1
    /\ sent'[Len(sent')].kind = "agent_error"
    /\ dispatched' = dispatched
    /\ memory' = memory
    /\ ncalls' = ncalls
    /\ asked' = asked

\* C21: resolving <url_from_ddg_search_result_N> yields the N-th element of
\* the most recent list-typed ddg_search result of the memory, and the tool
\* is dispatched with it; when there is no such result or N is outside
\* 1..length, an error message is sent to the user, the loop returns and the
\* tool that carries the placeholder is not dispatched.
C21_UrlPlaceholderResolves ==
    [][ \A n \in 1..5 :
          (stack = "listener" /\ pc = "exec" /\ plan[idx].value = UrlPlaceholder(n)) =>
            IF \E k \in LinkListsAt :
                    /\ \A j \in LinkListsAt : j <= k
                    /\ n \in 1..Len(memory[k].result.val)
            THEN \E k \in LinkListsAt :
                    /\ \A j \in LinkListsAt : j <= k
                    /\ Len(dispatched') = Len(dispatched) + 1
                    /\ dispatched'[Len(dispatched')].tool_name = plan[idx].tool_name
                    /\ dispatched'[Len(dispatched')].value = memory[k].result.val[n]
                    /\ pc' = "call"
                    /\ sent' = sent
            ELSE HaltsWithAgentError
      ]_vars

\* C21 witness: the second link of the newer of two searches was handed to
\* extract_text, the older search having found nothing.
C21_Witness ==
    /\ stack = "listener"
    /\ Cardinality(LinkListsAt) = 2
    /\ \E k \in LinkListsAt : memory[k].result.val = <<>> /\ k < Len(memory) - 2
    /\ dispatched # <<>>
    /\ dispatched[Len(dispatched)].tool_name = "extract_text"
    /\ dispatched[Len(dispatched)].value = "https://b"

\* The placeholder tokens the oracle is told to write (decision.py 153-166)
\* and the ones agentic_tool_loop looks for.
PlaceholderTokens ==
    {UrlPlaceholder(1), UrlPlaceholder(2), UrlPlaceholder(5), "<extracted_text>",
     "<sheet_id_from_gdrive_create_sheet>", "<file_id_from_gdrive_create_sheet>",
     "<user_chat_id>"}

\* The texts the loop puts in the place of a placeholder it found nothing for.
FillerValues == {"No extracted text found for placeholder."}

\* C22 as stated: no tool is dispatched with an argument that is still a
\* placeholder token, or with a filler put in the place of a placeholder
\* that could not be resolved.
C22_AsStated ==
    \A k \in 1..Len(dispatched) :
        dispatched[k].value \notin PlaceholderTokens \cup FillerValues

\* C23 as stated: the substitution step of agentic_tool_loop leaves the plan
\* the oracle proposed and the records of the session memory as they were
\* (the tool_call record of the dispatch is appended after them), and an
\* invocation whose placeholder is resolved sends nothing to the user.
C23_AsStated ==
    [][ (stack = "listener" /\ pc = "exec") =>
            /\ plan' = plan
            /\ Len(memory') >= Len(memory)
            /\ SubSeq(memory', 1, Len(memory)) = memory
            /\ dispatched' # dispatched => sent' = sent
      ]_vars

\* The records of the memory that hold a mapping-typed result of
\* gdrive_create_sheet.
SheetMappingsAt ==
    {k \in 1..Len(memory) :
        /\ memory[k].type = "tool_result"
        /\ memory[k].tool_name = "gdrive_create_sheet"
        /\ memory[k].result.kind = "dict"}

\* C24 as stated: resolving <sheet_id_from_gdrive_create_sheet> or
\* <file_id_from_gdrive_create_sheet> yields the sheet_id field of the most
\* recent mapping-typed gdrive_create_sheet result of the memory, and the
\* consuming tool is dispatched with it; when there is no such result (or
\* that result has no sheet_id to yield) an error message is sent to the
\* user and the loop returns without dispatching the consuming tool.
C24_AsStated ==
    [][ (/\ stack = "listener"
         /\ pc = "exec"
         /\ plan[idx].value \in {"<sheet_id_from_gdrive_create_sheet>",
                                 "<file_id_from_gdrive_create_sheet>"}) =>
            IF \E k \in SheetMappingsAt :
                    /\ \A j \in SheetMappingsAt : j <= k
                    /\ memory[k].result.val # <<>>
            THEN \E k \in SheetMappingsAt :
                    /\ \A j \in SheetMappingsAt : j <= k
                    /\ Len(dispatched') = Len(dispatched) + 1
                    /\ dispatched'[Len(dispatched')].tool_name = plan[idx].tool_name
                    /\ dispatched'[Len(dispatched')].value = memory[k].result.val[1]
            ELSE HaltsWithAgentError
      ]_vars

\* The records of the memory under substitution that hold an extract_text
\* result.
ExtractsAt ==
    {k \in 1..Len(substitution.memory) :
        /\ substitution.memory[k].type = "tool_result"
        /\ substitution.memory[k].tool_name = "extract_text"}

\* The lines of a text, in order.
LinesOf(text) == Split(text, NEWLINE)

\* The lines of a text that are not empty (not made of white space alone).
NonEmptyLinesOf(text) ==
    SelectSeq(LinesOf(text), LAMBDA l : \E p \in 1..Len(l) : ~IsSpace(l[p]))

\* C25: an <extracted_...> placeholder is replaced by the most recent
\* extract_text result of the memory; when the consuming tool is
\* gdrive_write_sheet and the argument is values, by the list of rows of that
\* text: one row per non-empty line, in order, each row the list of the
\* line's pipe-separated cells without their surrounding white space.
C25_ExtractedTextSubstituted ==
    (substituted # <<>> /\ ExtractsAt # {}) =>
        \E k \in ExtractsAt :
            /\ \A j \in ExtractsAt : j <= k
            /\ LET text == substitution.memory[k].result.val[1]
                   lines == NonEmptyLinesOf(text)
               IN  IF substitution.tool_name = "gdrive_write_sheet" /\ substitution.key = "values"
                   THEN /\ Len(substituted[1]) = Len(lines)
                        /\ \A r \in 1..Len(lines) :
                            /\ Len(substituted[1][r]) = Len(Split(lines[r], "|"))
                            /\ \A c \in 1..Len(substituted[1][r]) :
                                 substituted[1][r][c] = Strip(Split(lines[r], "|")[c])
                   ELSE substituted[1] = text

\* C25 witness: a page of two lines with an empty line between them, found
\* behind a later search and in front of an older page, was turned into two
\* rows for gdrive_write_sheet.
C25_Witness ==
    /\ substituted # <<>>
    /\ substitution.tool_name = "gdrive_write_sheet"
    /\ substitution.key = "values"
    /\ Cardinality(ExtractsAt) = 2
    /\ Len(substitution.memory) = 6
    /\ substitution.memory[4].result.val[1] = <<"a", NEWLINE, NEWLINE, "|">>
    /\ substituted[1] = << <<<<"a">>>>, <<<<>>, <<>>>> >>

\* C26: the memory store is append-only and keeps the order of insertion:
\* every step of add and retrieve leaves the records that were in the store
\* in it, unmodified and in their order; add puts the new record last;
\* retrieve leaves the store as it was; the k-th record of the store is the
\* k-th record that was added.
C26_StoreIsAppendOnly ==
    [][ /\ Len(memories') >= Len(memories)
        /\ SubSeq(memories', 1, Len(memories)) = memories
        /\ Len(memories') <= Len(memories) + 1
        /\ \A k \in 1..Len(memories') : memories'[k].id = k
        /\ retrieved' # retrieved => memories' = memories
      ]_vars

\* C26 witness: a full store whose records have falling and equal times of
\* creation in view, after a retrieval that returned the newest two.
C26_Witness ==
    /\ Len(memories) = MaxMemories
    /\ memories[1].timestamp < memories[2].timestamp
    /\ memories[2].timestamp = memories[3].timestamp
    /\ Len(retrieved.items) = 2
    /\ retrieved.items[1].id = 2

\* The records of the store that match the filters of the retrieve call
\* that returns in this step.
MatchingRetrieval ==
    {k \in 1..Len(memories) :
        /\ retrieved'.type_filter # None => memories[k].type = retrieved'.type_filter
        /\ retrieved'.session_filter # None => memories[k].session_id = retrieved'.session_filter}

\* The ordinals of the records the retrieve call of this step returns.
ReturnedIds == {retrieved'.items[k].id : k \in 1..Len(retrieved'.items)}

\* C27 as stated: retrieve returns at most top_k records, each a record of
\* the store that matches the session filter and the record-kind filter,
\* the one added later before the one added earlier, and it leaves out no
\* matching record that was added later than a returned one.
C27_AsStated ==
    [][ retrieved' # retrieved =>
            /\ Len(retrieved'.items) <= retrieved'.top_k
            /\ ReturnedIds \subseteq MatchingRetrieval
            /\ \A k \in 1..Len(retrieved'.items) :
                    retrieved'.items[k] = memories[retrieved'.items[k].id]
            /\ \A i, j \in 1..Len(retrieved'.items) :
                    i < j => retrieved'.items[i].id > retrieved'.items[j].id
            /\ \A m \in MatchingRetrieval \ ReturnedIds :
                    \A r \in ReturnedIds : m < r
      ]_vars

\* C28 as stated: while the k-th planning iteration of a session runs (k
\* counted from 1), the step index held in the session state is k.
C28_AsStated ==
    [][ iterations' = iterations + 1 => (step = iterations' \/ step' = iterations') ]_vars

\* C28: step indices rise strictly and are 1-based where they are shown: the
\* k-th planning iteration of a session (k counted from 1) begins with the
\* index k - 1 held in the session state (AgentContext.step, the loop
\* variable of agentic_tool_loop), the step number logged and given to the
\* oracle in that iteration is k, and the held index never decreases and
\* is never the same at the start of two iterations.
C28_StepIndices ==
    [][ /\ step' \in {step, step + 1}
        /\ iterations' \in {iterations, iterations + 1}
        /\ iterations' = iterations + 1 => step = iterations
        /\ step_num' # step_num => (iterations' = iterations + 1 /\ step_num' = iterations')
        /\ asked' # asked => step_num' = iterations'
      ]_vars

\* C28 witness: the third iteration of a session of AgentLoop.run has given
\* the oracle the step number 3 while the session state holds 2.
C28_Witness ==
    /\ stack = "agent"
    /\ pc = "call"
    /\ iterations = 3
    /\ step_num = 3
    /\ step = 2

\* The pages the tools have shown to the session of task h.
PagesOf(h) == IF h = 1 THEN {"https://a", "page a"} ELSE {"https://b", "page b"}

\* C29: sessions that run concurrently are isolated: the memory of a
\* session holds only records that session wrote, the history offered to
\* the oracle in a session holds only records of that session, and a
\* placeholder of a session is never resolved to a value another session
\* was given.
C29_SessionsIsolated ==
    \A h \in Handlers :
        /\ \A k \in 1..Len(stores[h]) : stores[h][k].by = h
        /\ \A k \in 1..Len(sessions[h].offered) : sessions[h].offered[k].by = h
        /\ \A k \in 1..Len(sessions[h].dispatched) :
               \A g \in Handlers \ {h} : sessions[h].dispatched[k] \notin PagesOf(g)

\* C29 witness: both sessions have searched, and the second has resolved
\* its placeholder to its own link while the first, which began earlier,
\* is still waiting for a call to return.
C29_Witness ==
    /\ sessions[1].pc = "call"
    /\ Len(stores[1]) >= 3
    /\ sessions[2].dispatched # <<>>
    /\ sessions[2].dispatched[Len(sessions[2].dispatched)] = "https://b"
    /\ sessions[2].offered # <<>>

\* The answers generate_plan gives when it has no answer line to return.
FallbackAnswers == {MissingKeyAnswer, ApiErrorAnswer, NoResultAnswer, ErrorAnswer}

\* The lines of the reply that, white space around them aside, start with
\* FUNCTION_CALL: or with FINAL_ANSWER:.
AnswerLinesOf(text) ==
    {k \in 1..Len(LinesOf(text)) :
        \E p \in 1..Len(LinesOf(text)[k]) :
            /\ \A q \in 1..(p - 1) : IsSpace(LinesOf(text)[k][q])
            /\ p + 1 <= Len(LinesOf(text)[k])
            /\ LinesOf(text)[k][p] \in {"FUNCTION_CALL", "FINAL_ANSWER"}
            /\ LinesOf(text)[k][p + 1] = ":"}

\* C30: generate_plan never raises.  When the oracle replied with a text
\* that has a line starting (white space around the line aside) with
\* FUNCTION_CALL: or FINAL_ANSWER:, it returns the first such line, trimmed,
\* whatever surrounds it (code fences, other lines); when no line has that
\* form, or the request to the oracle failed or was not made, it returns one
\* of its fixed FINAL_ANSWER lines.
C30_FirstAnswerLineOrFallback ==
    planned # <<>> =>
        /\ ~planned[1].raised
        /\ IF reply.api_key /\ reply.outcome = "text" /\ AnswerLinesOf(reply.raw) # {}
           THEN \E k \in AnswerLinesOf(reply.raw) :
                    /\ \A j \in AnswerLinesOf(reply.raw) : k <= j
                    /\ planned[1].val = Strip(LinesOf(reply.raw)[k])
           ELSE /\ planned[1].val \in FallbackAnswers
                /\ StartsWith(planned[1].val, FINAL_PREFIX)

\* A reply in a code fence whose answer line is indented was answered with
\* that line.
C30_Witness ==
    /\ reply = OracleReply(TRUE, "text", Fenced(<<" ", "FUNCTION_CALL", ":">>))
    /\ planned = <<PlanReturned(PREFIX)>>

\* C31, as stated: whenever a connection to the SSE endpoint is open,
\* sse_output_stream holds the stream of an open connection, and no incoming
\* message finds the stream unset while the listener is connected.
C31_AsStated ==
    /\ (\E c \in SseClients : sse_connections[c] = "open") =>
           /\ sse_output_stream # None
           /\ sse_connections[sse_output_stream] = "open"
    /\ \A k \in 1..Len(forwarded) : forwarded[k].listening => forwarded[k].to # None

\* C32, as stated: after discover_mcp_tools every entry of the catalog names
\* a tool that the routing map routes to the endpoint recorded in that
\* entry, and no two entries of the catalog carry the same tool name.
C32_AsStated ==
    (stack = "listener" /\ passes > 0 /\ dpos = 0 /\ ~available_mcp_tools.is_none) =>
        LET tools == available_mcp_tools.tools
        IN  /\ \A k \in 1..Len(tools) :
                   /\ tools[k].tool_name \in DOMAIN tool_to_endpoint_map
                   /\ tool_to_endpoint_map[tools[k].tool_name] = tools[k].endpoint
            /\ \A j, k \in 1..Len(tools) : tools[j].tool_name = tools[k].tool_name => j = k

\* The same for deployments in which no two servers advertise the same name.
C32_WhenDisjoint ==
    PairwiseDisjoint(advertised) => C32_AsStated

\* C33: AgentLoop.run never raises, and whenever it has returned, what it
\* returned is a text that starts with FINAL_ANSWER:, whichever way the
\* session went (final answer, parse failure, tool failures, exhausted
\* budget, an exception inside a step).
C33_RunReturnsFinalAnswer ==
    stack = "agent" =>
        /\ pc # "raised"
        /\ ending # "raised"
        /\ pc = "done" => StartsWith(returned, FINAL_PREFIX)
        /\ pc # "done" => returned = NoAnswer

\* C33 witness: a session in which a tool call failed and a later step
\* raised inside decide_next_action; run returned its default answer.
C33_Witness ==
    /\ stack = "agent"
    /\ pc = "done"
    /\ ending = "session_failed"
    /\ memory # <<>>
    /\ memory[Len(memory)].type = "tool_error"
    /\ final_answer = NoAnswer
    /\ returned = FINAL_PREFIX \o <<" ", "[no result]">>

\* Delivery to the user was attempted: send_telegram_message was invoked, or
\* a telegram_send_message invocation of a plan was handed to call_mcp_tool.
DeliveryAttempted ==
    \/ sent # <<>>
    \/ \E k \in 1..Len(dispatched) : dispatched[k].tool_name = "telegram_send_message"

\* C34, as stated: every run of agentic_tool_loop that has terminated has
\* attempted delivery to the user at least once.
C34_AsStated ==
    (stack = "listener" /\ pc \in {"done", "raised"}) => DeliveryAttempted

\* The same for the runs that terminate by returning.
C34_WhenReturned ==
    (stack = "listener" /\ pc = "done") => DeliveryAttempted

\* C35: in AgentLoop.run the step that dispatched a tool adds exactly one
\* memory record when the call ends, of type tool_output when call_tool
\* returned and tool_error when it raised, naming the tool and the session;
\* no other step touches the memory (neither the dispatch itself, nor a
\* step that ends in a final answer or a parse failure, nor the exits); so
\* there is one record per finished dispatch and never more records than
\* steps performed.
C35_OneRecordPerDispatch ==
    [][ stack = "agent" =>
          /\ (pc = "call" /\ pc' # "call") =>
                /\ Len(memory') = Len(memory) + 1
                /\ SubSeq(memory', 1, Len(memory)) = memory
                /\ memory'[Len(memory')].type = (IF call'.raised THEN "tool_error" ELSE "tool_output")
                /\ call'.raised = IsError(call')
                /\ memory'[Len(memory')].tool_name = dispatched[Len(dispatched)].tool_name
                /\ memory'[Len(memory')].session_id = "session-1"
          /\ ~(pc = "call" /\ pc' # "call") => memory' = memory
          /\ Len(memory') = Len(dispatched') - (IF pc' = "call" THEN 1 ELSE 0)
          /\ Len(memory') <= iterations'
      ]_vars

\* C35 witness: a session of three steps, the first with a call that
\* returned, the second with one that raised, the third ending in a parse
\* failure: two records.
C35_Witness ==
    /\ stack = "agent"
    /\ pc = "done"
    /\ ending = "parse_error"
    /\ iterations = 3
    /\ Len(memory) = 2
    /\ memory[1].type = "tool_output"
    /\ memory[2].type = "tool_error"

\* The step of agentic_tool_loop that records a result of
\* telegram_send_message that carries no error.
TelegramSucceeds ==
    /\ stack = "listener"
    /\ pc = "call"
    /\ pc' # "call"
    /\ plan[idx].tool_name = "telegram_send_message"
    /\ Len(memory') = Len(memory) + 1
    /\ ~HasError(memory'[Len(memory')])

\* C37: in agentic_tool_loop a telegram_send_message that succeeds as the
\* last invocation of the plan ends the run (no further planning request
\* is made and nothing more is dispatched); one that succeeds at an
\* earlier position leaves the run going, and the next step takes the
\* following invocation of the same list, which is dispatched as written
\* in the list (after placeholder substitution) unless its placeholder
\* cannot be resolved.
C37_TelegramEndsOnlyWhenLast ==
    [][ /\ (TelegramSucceeds /\ idx = Len(plan)) =>
              /\ pc' = "done"
              /\ ending' = "delivered"
              /\ asked' = asked
              /\ dispatched' = dispatched
        /\ (TelegramSucceeds /\ idx < Len(plan)) =>
              /\ pc' = "exec"
              /\ idx' = idx + 1
              /\ plan' = plan
              /\ asked' = asked
        /\ (stack = "listener" /\ pc = "done") => (asked' = asked /\ dispatched' = dispatched)
        /\ (stack = "listener" /\ pc = "exec" /\ pc' = "call") =>
              /\ idx' = idx
              /\ dispatched' = Append(dispatched, dispatched'[Len(dispatched')])
              /\ dispatched'[Len(dispatched')].tool_name = plan[idx].tool_name
      ]_vars

\* C37 witness: a run whose first plan had telegram_send_message in front
\* of another invocation, which was dispatched after it, and whose second
\* plan ended with telegram_send_message, which ended the run after two
\* planning requests.
C37_Witness ==
    /\ stack = "listener"
    /\ pc = "done"
    /\ ending = "delivered"
    /\ asked = 2
    /\ Len(dispatched) = 3
    /\ dispatched[1].tool_name = "telegram_send_message"
    /\ dispatched[2].tool_name # "telegram_send_message"
    /\ dispatched[3].tool_name = "telegram_send_message"
    /\ \A k \in 1..Len(memory) : ~HasError(memory[k])

\* The places of listen_to_source_sse: none of them is an exit.
ListenerPlaces == {"connecting", "listening", "waiting"}

\* C38: in listen_to_source_sse the reconnect delay is always within
\* 5..60 seconds; every reconnect wait is followed by a new connection
\* attempt with the delay doubled, but at most 60; a connection that
\* succeeds with status 200 sets the delay to 5 and nothing else touches
\* it; and after every connection failure and every end of the stream the
\* listener goes to the wait and from there to the next attempt: the loop
\* has no exit and always has a next step.
C38_DelayBoundedAndRetrying ==
    /\ [](/\ retry_delay \in 5..60
          /\ listener.pc \in ListenerPlaces
          /\ listener.attempts < MaxAttempts => ENABLED ListenNext)
    /\ [][ /\ listener.pc = "waiting" =>
                 /\ listener'.pc = "connecting"
                 /\ retry_delay' = (IF retry_delay * 2 <= 60 THEN retry_delay * 2 ELSE 60)
           /\ listener.pc = "connecting" =>
                 /\ listener'.attempts = listener.attempts + 1
                 /\ IF listener'.last = "status_200"
                    THEN listener'.pc = "listening" /\ retry_delay' = 5
                    ELSE listener'.pc = "waiting" /\ retry_delay' = retry_delay
           /\ listener.pc = "listening" =>
                 /\ retry_delay' = retry_delay
                 /\ IF listener'.last = "line"
                    THEN listener'.pc = "listening"
                    ELSE listener'.pc = "waiting"
         ]_vars

\* C38 witness: the sixth attempt in a row has failed and the listener is
\* about to wait the capped delay, which the fifth wait left at 60 where
\* doubling would have given 120.
C38_Witness ==
    /\ listener.pc = "waiting"
    /\ listener.attempts = 6
    /\ listener.last = "ConnectError"
    /\ retry_delay = 60

\* C38 witness of the reset: a connection that succeeded after three
\* failures has ended, and the wait that followed was of 5 seconds.
C38_ResetReached ==
    /\ listener.pc = "connecting"
    /\ listener.attempts = 4
    /\ listener.last = "stream_closed"
    /\ retry_delay = 10

\* A mapping with a tool_name or direct_answer key, or a list whose every
\* element is a mapping with a tool_name key.
WellShaped(d) ==
    \/ d.type = "dict" /\ ("tool_name" \in d.keys \/ "direct_answer" \in d.keys)
    \/ d.type = "list" /\ \A k \in 1..Len(d.items) :
                             d.items[k].type = "dict" /\ "tool_name" \in d.items[k].keys

\* The oracle failed: Gemini is disabled, the request ended short of a
\* text, the text is no JSON, or its JSON has an unexpected shape.
OracleFailure(l) ==
    \/ ~l.enabled
    \/ l.outcome \in FailedRequests
    \/ /\ l.outcome = "text"
       /\ \/ ~IsJson(CleanedText(Strip(l.text)))
          \/ ~WellShaped(JsonLoads(CleanedText(Strip(l.text))))

\* C36 as stated: ask_llm_for_tool_decision returns for every oracle
\* outcome a well-shaped decision (never None, never an exception), and
\* after an oracle failure the loop ends the session by handing the
\* decision's direct answer to the delivery.
C36_AsStated ==
    /\ decided # <<>> => WellShaped(decided[1])
    /\ (told # <<>> /\ OracleFailure(llm)) =>
           /\ told[1].branch = "answer"
           /\ told[1].text = decided[1].direct_answer

\* C36: ask_llm_for_tool_decision returns for every oracle outcome a
\* well-shaped decision (never None, never an exception); after an
\* oracle failure the loop ends the session with a message handed to the
\* delivery, which is the decision's non-empty direct answer except when
\* the candidate's text is empty or white space only: then the direct
\* answer is the empty text and the message is the loop's agent-error
\* text.
C36_TotalAndReported ==
    /\ decided # <<>> => WellShaped(decided[1])
    /\ (told # <<>> /\ OracleFailure(llm)) =>
           IF llm.enabled /\ llm.outcome = "text" /\ Strip(llm.text) = <<>>
           THEN /\ decided[1] = AnswerMapping(<<>>)
                /\ told[1].branch = "reject"
                /\ told[1].text # <<>>
           ELSE /\ told[1].branch = "answer"
                /\ told[1].text = decided[1].direct_answer
                /\ told[1].text # <<>>

\* C36 witness: the candidate's text was white space only, the decision is
\* the mapping with the empty direct answer, and the loop has sent its
\* agent-error text.
C36_Witness ==
    /\ llm.enabled
    /\ llm.outcome = "text"
    /\ llm.text = <<" ", " ">>
    /\ decided = <<AnswerMapping(<<>>)>>
    /\ told # <<>>
    /\ told[1].branch = "reject"

\* A list with an item that is no tool call comes back as a direct answer
\* holding the raw text, which the loop sends.
C36_BadListAnswered ==
    /\ llm.outcome = "text"
    /\ llm.text = <<CODE_FENCE, "json", "DOC_BAD_LIST", CODE_FENCE>>
    /\ told = <<Told("answer", llm.text)>>

====
